---- MODULE Spec2Model ----
(***************************************************************************)
(* The IPAM reconciliation controller of kube-controllers                  *)
(* (kube-controllers/pkg/controllers/node/ipam.go) as a state machine.     *)
(*                                                                         *)
(* One step of the model is one iteration of the select loop of            *)
(* acceptScheduleRequests (a syncer update, a deletion signal, a tick or a *)
(* triggered sync, each handled to completion), or one change of the       *)
(* outside world (the clock, the pods and nodes of the Kubernetes API, the *)
(* Calico node resources).                                                 *)
(*                                                                         *)
(* The allocation record, the handle tracker, the per-node allocation      *)
(* state and the block release tracker are defined in other files of the   *)
(* package; they follow their description in the design (sections 4.2 to   *)
(* 4.6 of the specification).                                              *)
(***************************************************************************)
EXTENDS Integers, Sequences, FiniteSets, TLC

\* ------------------------------------------------------------------ bounds

\* The clock runs from 0 to MaxTime.
MaxTime == 3
\* The grace period of the specifications that have one.
Grace == 2
\* The rate limiter counts up to MaxBackoff consecutive failures.
MaxBackoff == 2
\* The default period of the ticker, 5 * time.Minute, in the unit of
\* LeakGracePeriod; the model scales it to 3.
FiveMinutes == 3
\* The grace periods of SpecTicker run from 0 to MaxGracePeriod.
MaxGracePeriod == 60
\* The capacity of nodeDeletionChan and of podDeletionChan
\* (utils.BatchUpdateSize); the model scales it to 2.
BatchUpdateSize == 2

\* ---------------------------------------------------------------- universe

CNodes == {"n1", "n2"}
Blocks == {"b1", "b2"}
Ords == {0, 1}
\* "No timestamp" of an allocation or of a block release tracker entry.
NoTime == 0 - 1
\* LeakGracePeriod == NilGrace models a nil *time.Duration.
NilGrace == 0 - 1

\* A block affinity: nil, "host:<node>", or another kind of affinity.
NilAffinity == [set |-> FALSE, host |-> FALSE, name |-> ""]
HostAffinity(n) == [set |-> TRUE, host |-> TRUE, name |-> n]
OtherAffinity == [set |-> TRUE, host |-> FALSE, name |-> "v"]

\* A slot of a block: unallocated (idx == nil), or its attributes.
FreeSlot ==
  [used |-> FALSE, hasHandle |-> FALSE, handle |-> "", ns |-> "", pod |-> "",
   node |-> "", type |-> "", reserved |-> FALSE, seq |-> 0]
Slot(h, ns, pod, node, type, reserved) ==
  [used |-> TRUE, hasHandle |-> TRUE, handle |-> h, ns |-> ns, pod |-> pod,
   node |-> node, type |-> type, reserved |-> reserved, seq |-> 0]
PodSlot(h, pod, node) == Slot(h, "ns", pod, node, "", FALSE)
TunnelSlot(h, node) == Slot(h, "", "", node, "tunnel", FALSE)
ReservedSlot(h, node) == Slot(h, "", "", node, "", TRUE)
UnknownSlot(h, node) == Slot(h, "", "", node, "", FALSE)
NoHandleSlot(node) ==
  [used |-> TRUE, hasHandle |-> FALSE, handle |-> "", ns |-> "ns", pod |-> "p1",
   node |-> node, type |-> "", reserved |-> FALSE, seq |-> 0]

BlockValue(aff, s0, s1) ==
  [affinity |-> aff, slots |-> [o \in Ords |-> IF o = 0 THEN s0 ELSE s1]]

\* ------------------------------------------------------------ map helpers

MapPut(m, k, v) == [x \in (DOMAIN m) \cup {k} |-> IF x = k THEN v ELSE m[x]]
MapDel(m, k) == [x \in (DOMAIN m) \ {k} |-> m[x]]
Range(m) == {m[x] : x \in DOMAIN m}
EmptyMap == [x \in {} |-> ""]

RECURSIVE Orders(_)
\* Every order in which a Go map with key set S may be iterated.
Orders(S) ==
  IF S = {} THEN {<<>>}
  ELSE UNION {{<<x>> \o s : s \in Orders(S \ {x})} : x \in S}

\* --------------------------------------------------------------- variables

VARIABLES
  \* IPAMController fields
  syncStatus, datastoreReady, kubernetesNodesByCalicoName, allBlocks,
  allocationsByBlock, confirmedLeaks, nodesByBlock, blocksByNode, emptyBlocks,
  fullSyncRequired, syncChan, LeakGracePeriod,
  \* allocationState, handleTracker, blockReleaseTracker
  byNode, dirtyNodes, handleTracker, blockReleaseTracker,
  \* poolManager: allPools (the names), blocksByPool and poolsByBlock
  poolManager,
  \* the outside world
  now, podLister, podAPI, nodeLister, calicoNodeAPI,
  \* whether the calls of the IPAM client can fail: "ok" or "failing"
  ipamAPI,
  \* whether the process is running (a log.Fatalf ends it)
  running,
  \* the retry controller: its armed timers and the failures its rate limiter counts
  retryController,
  \* acceptScheduleRequests: where the task is ("start" before the ticker is
  \* made, "select" waiting in the select, "nodeDeletion" or "podDeletion"
  \* inside ProcessBatch for that channel, "paused", "stopped" once it has
  \* returned) and the period of its ticker; the stop channel ("open" or
  \* "closed"), the two deletion channels, and the calls of
  \* OnKubernetesNodeDeleted and OnKubernetesPodDeleted that wait in their send
  pc, period, stopCh, nodeDeletionChan, podDeletionChan, blocked,
  \* For the properties: what the last step did (its calls to the IPAM client),
  \* whether InSync was ever received, and for the blocks that a block update
  \* reported in use while the release tracker held an empty-since time for them
  \* the time of the latest such update.
  last, everInSync, usedWhileMarked

ctlVars ==
  <<syncStatus, datastoreReady, kubernetesNodesByCalicoName, allBlocks,
    allocationsByBlock, confirmedLeaks, nodesByBlock, blocksByNode, emptyBlocks,
    fullSyncRequired, byNode, dirtyNodes, handleTracker, blockReleaseTracker,
    poolManager>>
envVars == <<now, podLister, podAPI, nodeLister, calicoNodeAPI, ipamAPI>>
loopVars == <<pc, period, stopCh, nodeDeletionChan, podDeletionChan, blocked>>
vars ==
  <<ctlVars, syncChan, LeakGracePeriod, envVars, running, retryController, last,
    everInSync, usedWhileMarked, loopVars>>

\* ------------------------------------------------- the allocation record

\* The IP of an ordinal of a block: distinct blocks and ordinals give distinct IPs.
ordinalToIP(b, ord) == <<b, ord>>

\* allocation.id(): an injective combination of handle, sequence number, block
\* and ordinal.
AllocId(a) == <<a.handle, a.seq, a.block, a.ord>>

\* The allocation built by onBlockUpdated for slot `ord` of block b; gen tells
\* apart two allocation objects built for the same id at different times, and
\* released records (for the properties) that ReleaseIPs returned the address.
NewAllocation(b, ord, s, gen) ==
  [ip |-> ordinalToIP(b, ord), handle |-> s.handle, ns |-> s.ns, pod |-> s.pod,
   node |-> s.node, type |-> s.type, reserved |-> s.reserved, seq |-> s.seq,
   block |-> b, ord |-> ord, gen |-> gen,
   knode |-> "", state |-> "Valid", since |-> NoTime, released |-> FALSE]

isTunnelAddress(a) == a.type = "tunnel"
isPodIP(a) == a.ns # "" /\ a.pod # ""
isWindowsReserved(a) == a.reserved
isConfirmedLeak(a) == a.state = "Confirmed"
isCandidateLeak(a) == a.state = "Candidate"

markValid(a) == [a EXCEPT !.state = "Valid", !.since = NoTime]
markConfirmedLeak(a) == [a EXCEPT !.state = "Confirmed"]
markLeak(a, grace, t) ==
  CASE a.state = "Valid" -> [a EXCEPT !.state = "Candidate", !.since = t]
    [] a.state = "Candidate" ->
         IF t - a.since >= grace THEN [a EXCEPT !.state = "Confirmed"] ELSE a
    [] OTHER -> a

ReleaseOptions(a) == [Address |-> a.ip, Handle |-> a.handle, SequenceNumber |-> a.seq]

\* ---------------------------------- maps keyed by allocation id, as sets

IdsOf(S) == {AllocId(x) : x \in S}
HasId(S, id) == id \in IdsOf(S)
DelId(S, id) == {x \in S : AllocId(x) # id}
PutObj(S, a) == DelId(S, AllocId(a)) \cup {a}
\* The object `old` was changed in place into `new`: every map holding it sees it.
Mutate(S, old, new) == IF old \in S THEN (S \ {old}) \cup {new} ELSE S

\* -------------------------------------------------------- the outside world

\* The Kubernetes node name of a Calico node (getK8sNodeName).
KName(cnode) == cnode
PodNames == {"p1", "p2"}

\* What a pod query (lister or API server) answers.
PodNotFound ==
  [res |-> "notfound", nodeName |-> "", ips |-> {}, evicted |-> FALSE, wepErr |-> FALSE]
PodError ==
  [res |-> "error", nodeName |-> "", ips |-> {}, evicted |-> FALSE, wepErr |-> FALSE]
PodFound(k, ips) ==
  [res |-> "found", nodeName |-> k, ips |-> ips, evicted |-> FALSE, wepErr |-> FALSE]
PodEvicted(k, ips) ==
  [res |-> "found", nodeName |-> k, ips |-> ips, evicted |-> TRUE, wepErr |-> FALSE]

\* conversion.PodToWorkloadEndpoints: the IP networks of the pod's endpoints.
PodToWorkloadEndpoints(p) == p.ips

allocationIsValid(a, preferCache) ==
  LET p == IF preferCache THEN podLister[a.pod] ELSE podAPI[a.pod] IN
  IF isTunnelAddress(a) THEN a.knode # ""
  ELSE IF a.ns = "" \/ a.pod = "" THEN TRUE
  ELSE IF p.res = "error" THEN TRUE
  ELSE IF p.res = "notfound" THEN FALSE
  ELSE IF p.nodeName # "" /\ a.knode # "" /\ p.nodeName # a.knode THEN FALSE
  ELSE IF p.ips = {} THEN TRUE
  ELSE IF p.evicted THEN FALSE
  ELSE IF p.wepErr THEN TRUE
  ELSE a.ip \in PodToWorkloadEndpoints(p)

nodeExists_ErrorIsAbsent(knode) == nodeLister[knode] \notin {"notfound", "error"}

\* nodeLister[k] is "found", "notfound", "error" (any other lister error) or
\* "migrating" (found, carrying a migration label whose value is not "calico").
nodeExists(knode) == nodeLister[knode] # "notfound"

\* calicoNodeAPI[n] is what client.Nodes().Get answers: "absent"
\* (ErrorResourceDoesNotExist), "error", "notk8s" (a node without a Kubernetes
\* reference) or "k8s".
kubernetesNodeForCalico(knc, cnode) ==
  IF cnode \in DOMAIN knc /\ knc[cnode] # ""
  THEN [err |-> FALSE, name |-> knc[cnode]]
  ELSE CASE calicoNodeAPI[cnode] = "absent" -> [err |-> FALSE, name |-> ""]
         [] calicoNodeAPI[cnode] = "k8s" -> [err |-> FALSE, name |-> KName(cnode)]
         [] OTHER -> [err |-> TRUE, name |-> ""]

nodeIsBeingMigrated_ErrorIsNo(knc, name) ==
  LET k == kubernetesNodeForCalico(knc, name) IN
  [migrating |-> ~k.err /\ k.name # "" /\ nodeLister[k.name] = "migrating",
   err |-> FALSE]

\* nodeIsBeingMigrated: whether the Kubernetes node of the Calico node `name`
\* carries a migration label whose value is not "calico", or an error.
nodeIsBeingMigrated(knc, name) ==
  LET k == kubernetesNodeForCalico(knc, name) IN
  IF k.err THEN [migrating |-> FALSE, err |-> TRUE]
  ELSE IF k.name = "" \/ nodeLister[k.name] = "notfound"
       THEN [migrating |-> FALSE, err |-> FALSE]
  ELSE IF nodeLister[k.name] = "error" THEN [migrating |-> FALSE, err |-> TRUE]
  ELSE [migrating |-> nodeLister[k.name] = "migrating", err |-> FALSE]

\* --------------------------------------------------- the controller's caches

\* The caches as one record, so that a handler is a function from caches to caches.
Ctl ==
  [syncStatus |-> syncStatus, datastoreReady |-> datastoreReady,
   knc |-> kubernetesNodesByCalicoName, allBlocks |-> allBlocks,
   abb |-> allocationsByBlock, cl |-> confirmedLeaks,
   nodesByBlock |-> nodesByBlock, blocksByNode |-> blocksByNode,
   emptyBlocks |-> emptyBlocks, full |-> fullSyncRequired,
   byNode |-> byNode, dirty |-> dirtyNodes, ht |-> handleTracker,
   brt |-> blockReleaseTracker, pm |-> poolManager]

SetCtl(c) ==
  /\ syncStatus' = c.syncStatus
  /\ datastoreReady' = c.datastoreReady
  /\ kubernetesNodesByCalicoName' = c.knc
  /\ allBlocks' = c.allBlocks
  /\ allocationsByBlock' = c.abb
  /\ confirmedLeaks' = c.cl
  /\ nodesByBlock' = c.nodesByBlock
  /\ blocksByNode' = c.blocksByNode
  /\ emptyBlocks' = c.emptyBlocks
  /\ fullSyncRequired' = c.full
  /\ byNode' = c.byNode
  /\ dirtyNodes' = c.dirty
  /\ handleTracker' = c.ht
  /\ blockReleaseTracker' = c.brt
  /\ poolManager' = c.pm

\* A generation no live allocation object of this id carries.
FreshGen(c, id) ==
  LET used == {x.gen : x \in {y \in c.abb \cup c.byNode \cup c.ht \cup c.cl : AllocId(y) = id}}
  IN CHOOSE g \in 0..Cardinality(used) : g \notin used /\ \A h \in 0..(g - 1) : h \in used

\* blockReleaseTracker: the entry of a block is the time it was first seen empty;
\* a block without an entry is in use.
markInUse(brt, b) == MapDel(brt, b)
\* markEmpty: <<the tracker afterwards, whether the block may be released>>.
markEmpty(brt, b, grace, t) ==
  IF grace = NilGrace THEN [brt |-> brt, ok |-> TRUE]
  ELSE IF b \notin DOMAIN brt THEN [brt |-> MapPut(brt, b, t), ok |-> FALSE]
  ELSE [brt |-> brt, ok |-> t - brt[b] >= grace]

\* The affinity indices after a block update (onBlockUpdated, first part).
AffinityIndex(c, b, v) ==
  IF v.affinity.set
  THEN IF v.affinity.host
       THEN [nodesByBlock |-> MapPut(c.nodesByBlock, b, v.affinity.name),
             blocksByNode |->
               [c.blocksByNode EXCEPT ![v.affinity.name] = @ \cup {b}]]
       ELSE [nodesByBlock |-> c.nodesByBlock, blocksByNode |-> c.blocksByNode]
  ELSE IF b \in DOMAIN c.nodesByBlock
       THEN [nodesByBlock |-> MapDel(c.nodesByBlock, b),
             blocksByNode |-> [c.blocksByNode EXCEPT ![c.nodesByBlock[b]] = @ \ {b}]]
       ELSE [nodesByBlock |-> c.nodesByBlock, blocksByNode |-> c.blocksByNode]

newAllocationsOnNode_None(fresh) == {}

\* The new allocations of a block update that enter the allocations-by-node view.
newAllocationsOnNode(fresh) == {a \in fresh : a.node # ""}

goneAllocations_None(known, currentAllocations) == {}

\* The allocations known for the block that the update no longer carries.
goneAllocations(known, currentAllocations) ==
  {a \in known : AllocId(a) \notin currentAllocations}

\* The pool that owns a block among the known pools: the pool with the longest
\* prefix that contains it, "" when no known pool does. Pool "pool1" contains
\* every block, "pool2", of a longer prefix, contains block b1.
poolOfBlock(allPools, b) ==
  IF b = "b1" /\ "pool2" \in allPools THEN "pool2"
  ELSE IF "pool1" \in allPools THEN "pool1"
  ELSE ""

\* poolManager.onBlockDeleted: the block leaves both maps.
pmOnBlockDeleted(pm, b) ==
  [poolsByBlock |-> MapDel(pm.poolsByBlock, b),
   blocksByPool |-> [x \in DOMAIN pm.blocksByPool |-> pm.blocksByPool[x] \ {b}],
   allPools |-> pm.allPools]

\* poolManager.onBlockUpdated: the block is entered under its owning pool in
\* both maps, and under no other.
pmOnBlockUpdated(pm, b) ==
  LET owner == poolOfBlock(pm.allPools, b)
      rest == pmOnBlockDeleted(pm, b)
  IN [rest EXCEPT
        !.poolsByBlock = MapPut(@, b, owner),
        !.blocksByPool =
          MapPut(@, owner, (IF owner \in DOMAIN @ THEN @[owner] ELSE {}) \cup {b})]

\* allocationState.allocate and handleTracker.setAllocation store the object
\* under its id; allocationState.release and handleTracker.removeAllocation
\* remove the entry of its id; allocate and release mark the node dirty.
onBlockUpdated(c, b, v) ==
  LET n == IF v.affinity.set /\ v.affinity.host THEN v.affinity.name ELSE ""
      idx == AffinityIndex(c, b, v)
      usedOrds == {o \in Ords : v.slots[o].used}
      numAllocationsInBlock == Cardinality(usedOrds)
      withHandle == {o \in usedOrds : v.slots[o].hasHandle}
      idOf(o) == AllocId(NewAllocation(b, o, v.slots[o], 0))
      currentAllocations == {idOf(o) : o \in withHandle}
      known == {a \in c.abb : a.block = b}
      fresh == {NewAllocation(b, o, v.slots[o], FreshGen(c, idOf(o))) :
                  o \in {x \in withHandle : ~HasId(known, idOf(x))}}
      onNode == newAllocationsOnNode(fresh)
      gone == goneAllocations(known, currentAllocations)
      goneIds == IdsOf(gone)
      emptied == MapDel(c.emptyBlocks, b)
  IN [c EXCEPT
        !.nodesByBlock = idx.nodesByBlock,
        !.blocksByNode = idx.blocksByNode,
        !.abb = (c.abb \cup fresh) \ gone,
        !.byNode = {a \in {x \in c.byNode : AllocId(x) \notin IdsOf(onNode)} \cup onNode :
                      AllocId(a) \notin IdsOf({x \in gone : x.node # ""})},
        !.dirty = c.dirty \cup {a.node : a \in onNode}
                          \cup {a.node : a \in {x \in gone : x.node # ""}},
        !.ht = {a \in {x \in c.ht : AllocId(x) \notin IdsOf(fresh)} \cup fresh :
                  AllocId(a) \notin goneIds},
        !.cl = {a \in c.cl : AllocId(a) \notin goneIds},
        !.emptyBlocks =
          IF n # "" /\ numAllocationsInBlock = 0 THEN MapPut(emptied, b, n) ELSE emptied,
        !.brt =
          IF n # "" /\ numAllocationsInBlock # 0 THEN markInUse(c.brt, b) ELSE c.brt,
        !.pm = pmOnBlockUpdated(c.pm, b),
        !.allBlocks = MapPut(c.allBlocks, b, v)]

onBlockDeleted(c, b) ==
  LET allocations == {a \in c.abb : a.block = b}
      onNode == {a \in allocations : a.node # ""}
      n == IF b \in DOMAIN c.nodesByBlock THEN c.nodesByBlock[b] ELSE ""
  IN [c EXCEPT
        !.byNode = {a \in c.byNode : AllocId(a) \notin IdsOf(onNode)},
        !.dirty = c.dirty \cup {a.node : a \in onNode},
        !.abb = c.abb \ allocations,
        !.blocksByNode =
          IF n # "" THEN [c.blocksByNode EXCEPT ![n] = @ \ {b}] ELSE c.blocksByNode,
        !.allBlocks = MapDel(c.allBlocks, b),
        !.nodesByBlock = MapDel(c.nodesByBlock, b),
        !.emptyBlocks = MapDel(c.emptyBlocks, b),
        !.brt = MapDel(c.brt, b),
        !.pm = pmOnBlockDeleted(c.pm, b)]

\* handlePoolUpdate: an IP pool is received (onPoolUpdated) or deleted
\* (onPoolDeleted). The pool manager inserts the pool; on a delete it removes
\* it and scrubs the entries of the two maps that lead to it.
handlePoolUpdate(c, pool, deleted) ==
  IF deleted
  THEN [c EXCEPT
          !.pm = [allPools |-> c.pm.allPools \ {pool},
                  blocksByPool |-> MapDel(c.pm.blocksByPool, pool),
                  poolsByBlock |->
                    [x \in {y \in DOMAIN c.pm.poolsByBlock : c.pm.poolsByBlock[y] # pool}
                       |-> c.pm.poolsByBlock[x]]]]
  ELSE [c EXCEPT !.pm.allPools = @ \cup {pool}]

\* A node update: kn is the node's Kubernetes name, "" when it has none.
handleNodeUpdate(c, cnode, deleted, kn) ==
  IF deleted THEN [c EXCEPT !.knc = MapDel(c.knc, cnode)]
  ELSE [c EXCEPT !.knc = MapPut(c.knc, cnode, kn)]

\* A cluster information update: deleted, or carrying DatastoreReady (nil, true, false).
handleClusterInformationUpdate(c, deleted, ready) ==
  IF deleted THEN [c EXCEPT !.datastoreReady = FALSE]
  ELSE IF ready = "nil" THEN c
  ELSE [c EXCEPT !.datastoreReady = (ready = "true")]

\* ----------------------------------------------------------- checkAllocations

\* handleTracker.isConfirmedLeak: every allocation tracked under the handle is
\* a confirmed leak.
handleIsConfirmedLeak(ht, h) == \A x \in ht : x.handle = h => isConfirmedLeak(x)

nodesToCheck_DirtyOnly(c) == c.dirty

\* The nodes a scan looks at.
nodesToCheck(c) ==
  IF c.full THEN Range(c.nodesByBlock) \cup {a.node : a \in c.byNode} ELSE c.dirty

scanClass_ReservedAsPod(a) ==
  IF ~isPodIP(a) /\ ~isTunnelAddress(a) /\ ~isWindowsReserved(a) THEN "unknown"
  ELSE IF isTunnelAddress(a) THEN "tunnel"
  ELSE "pod"

\* How the scan treats an allocation: "reserved", "unknown", "tunnel" or "pod".
scanClass(a) ==
  IF isWindowsReserved(a) THEN "reserved"
  ELSE IF ~isPodIP(a) /\ ~isTunnelAddress(a) THEN "unknown"
  ELSE IF isTunnelAddress(a) THEN "tunnel"
  ELSE "pod"

\* kubernetesNodeExists of the scan's loop body, for a node the scan does not skip.
kubernetesNodeExists(c, cnode) ==
  LET knode == kubernetesNodeForCalico(c.knc, cnode).name IN
  knode # "" /\ nodeExists(knode)

\* The allocation with its knode field set by the scan.
withKnode(c, a) == [a EXCEPT !.knode = kubernetesNodeForCalico(c.knc, a.node).name]

scanValid(c, a) == scanClass(a) = "pod" /\ allocationIsValid(withKnode(c, a), TRUE)

\* canDelete at the end of the loop over the allocations of a node.
canDelete(c, cnode) ==
  \A a \in {x \in c.byNode : x.node = cnode} :
    scanClass(a) # "unknown" /\ ~scanValid(c, a)

nodesToRelease_AnyAbsent(c) ==
  {n \in nodesToCheck(c) :
     ~kubernetesNodeForCalico(c.knc, n).err /\ ~kubernetesNodeExists(c, n)}

\* The nodes whose affinities the scan decides to release.
nodesToRelease(c) ==
  {n \in nodesToCheck(c) :
     /\ ~kubernetesNodeForCalico(c.knc, n).err
     /\ ~kubernetesNodeExists(c, n)
     /\ canDelete(c, n)}

scanInvalidPod_Confirm(c, a, grace, t) == markConfirmedLeak(a)

scanInvalidPod_GraceFirst(c, a, grace, t) ==
  IF grace # NilGrace THEN markLeak(a, grace, t)
  ELSE IF ~kubernetesNodeExists(c, a.node) THEN markConfirmedLeak(a)
  ELSE a

\* The leak state of a pod allocation that the scan found invalid.
scanInvalidPod(c, a, grace, t) ==
  IF ~kubernetesNodeExists(c, a.node) THEN markConfirmedLeak(a)
  ELSE IF grace # NilGrace THEN markLeak(a, grace, t)
  ELSE a

\* What the scan makes of an allocation of a node it checks.
scanned(c, a, grace, t) ==
  LET k == withKnode(c, a) IN
  CASE scanClass(a) \in {"reserved", "unknown"} -> k
    [] scanClass(a) = "tunnel" ->
         IF a.node \in nodesToRelease(c) THEN markConfirmedLeak(k) ELSE k
    [] OTHER ->
         IF scanValid(c, a) THEN markValid(k) ELSE scanInvalidPod(c, k, grace, t)

\* The allocations whose entry of confirmedLeaks the scan writes (their new
\* values), and those whose entry it deletes.
scanIndexed(c, V, grace, t) ==
  {scanned(c, a, grace, t) :
     a \in {x \in V :
              \/ scanClass(x) = "tunnel" /\ x.node \in nodesToRelease(c)
              \/ /\ scanClass(x) = "pod"
                 /\ ~scanValid(c, x)
                 /\ isConfirmedLeak(scanned(c, x, grace, t))}}
scanUnindexed(c, V, grace, t) ==
  {AllocId(a) :
     a \in {x \in V : /\ scanClass(x) = "pod"
                      /\ ~scanValid(c, x)
                      /\ ~isConfirmedLeak(scanned(c, x, grace, t))}}

\* The caches after checkAllocations; the nodes to release are nodesToRelease(c).
checkAllocations(c, grace, t) ==
  LET checked == {n \in nodesToCheck(c) : ~kubernetesNodeForCalico(c.knc, n).err}
      V == {a \in c.byNode : a.node \in checked}
      new == [x \in V |-> scanned(c, x, grace, t)]
      upd(S) == {IF x \in V THEN new[x] ELSE x : x \in S}
      put == scanIndexed(c, V, grace, t)
      del == scanUnindexed(c, V, grace, t)
  IN [c EXCEPT
        !.full = FALSE,
        !.abb = upd(c.abb),
        !.byNode = upd(c.byNode),
        !.ht = upd(c.ht),
        !.cl = {x \in upd(c.cl) : AllocId(x) \notin del \cup IdsOf(put)} \cup put]

\* --------------------------------------------------- garbageCollectKnownLeaks

\* The most options of one ReleaseIPs call. The source has 10000; the model
\* scales it to 2, so that a third confirmed leak is left for the next pass.
maxBatchSize == 2

resurrect_KeepIndexed(c, a) ==
  [c EXCEPT
     !.abb = Mutate(c.abb, a, markValid(a)),
     !.byNode = Mutate(c.byNode, a, markValid(a)),
     !.ht = Mutate(c.ht, a, markValid(a)),
     !.cl = Mutate(c.cl, a, markValid(a))]

\* An allocation of confirmedLeaks found valid again: dropped from the index and
\* marked valid.
resurrect(c, a) ==
  [c EXCEPT
     !.cl = DelId(c.cl, AllocId(a)),
     !.abb = Mutate(c.abb, a, markValid(a)),
     !.byNode = Mutate(c.byNode, a, markValid(a)),
     !.ht = Mutate(c.ht, a, markValid(a))]

\* For the properties: what the loop saw when it added a to the options.
gcSnapshot(c, a) ==
  [id |-> AllocId(a), state |-> a.state,
   tracked |-> {x.state : x \in {y \in c.ht : y.handle = a.handle}}]

gcHandleGuard_Off(c, a) == TRUE

\* The handle guard of the loop.
gcHandleGuard(c, a) == handleIsConfirmedLeak(c.ht, a.handle)

RECURSIVE gcCollect_NoCap(_, _, _)
gcCollect_NoCap(st, order, i) ==
  IF i > Len(order) THEN st
  ELSE LET a == order[i] IN
       IF allocationIsValid(a, a.knode = "")
       THEN gcCollect_NoCap([st EXCEPT !.c = resurrect(st.c, a),
                                       !.resurrected = @ \cup {AllocId(a)}], order, i + 1)
       ELSE IF ~gcHandleGuard(st.c, a)
       THEN gcCollect_NoCap(st, order, i + 1)
       ELSE gcCollect_NoCap([st EXCEPT !.opts = Append(@, a),
                                       !.snap = @ \cup {gcSnapshot(st.c, a)}], order, i + 1)

RECURSIVE gcCollect(_, _, _)
\* The first loop over confirmedLeaks, taken in the order `order`, from its
\* i-th element on. st: the caches, the options so far (as the allocations
\* they were made from), and for the properties what was seen at each addition
\* and the ids found valid again.
gcCollect(st, order, i) ==
  IF i > Len(order) \/ Len(st.opts) >= maxBatchSize THEN st
  ELSE LET a == order[i] IN
       IF allocationIsValid(a, a.knode = "")
       THEN gcCollect([st EXCEPT !.c = resurrect(st.c, a),
                                 !.resurrected = @ \cup {AllocId(a)}], order, i + 1)
       ELSE IF ~gcHandleGuard(st.c, a)
       THEN gcCollect(st, order, i + 1)
       ELSE gcCollect([st EXCEPT !.opts = Append(@, a),
                                 !.snap = @ \cup {gcSnapshot(st.c, a)}], order, i + 1)

\* leaks: release address -> allocation; a later allocation with the same
\* address replaces an earlier one.
leaksOf(opts) ==
  [addr \in {opts[i].ip : i \in 1..Len(opts)} |->
     opts[CHOOSE i \in 1..Len(opts) :
            opts[i].ip = addr /\ \A j \in (i + 1)..Len(opts) : opts[j].ip # addr]]

gcRelease_KeepIndexed(c, a) ==
  [c EXCEPT
     !.byNode = DelId(c.byNode, AllocId(a)),
     !.dirty = c.dirty \cup {a.node},
     !.abb = Mutate(c.abb, a, [a EXCEPT !.released = TRUE]),
     !.ht = Mutate(c.ht, a, [a EXCEPT !.released = TRUE])]

\* The bookkeeping for one allocation that ReleaseIPs reported released.
gcRelease(c, a) ==
  [c EXCEPT
     !.byNode = DelId(c.byNode, AllocId(a)),
     !.dirty = c.dirty \cup {a.node},
     !.cl = DelId(c.cl, AllocId(a)),
     !.abb = Mutate(c.abb, a, [a EXCEPT !.released = TRUE]),
     !.ht = Mutate(c.ht, a, [a EXCEPT !.released = TRUE])]

RECURSIVE gcReleased(_, _, _)
\* The loop over the released options rel, from its i-th element on.
\* st: the caches, the leaks map, whether the Fatalf branch was taken, and the
\* ids whose reclamation was counted.
gcReleased(st, rel, i) ==
  IF i > Len(rel) \/ st.fatal THEN st
  ELSE IF rel[i].Address \notin DOMAIN st.leaks THEN [st EXCEPT !.fatal = TRUE]
  ELSE LET a == st.leaks[rel[i].Address] IN
       gcReleased([st EXCEPT !.c = gcRelease(st.c, a),
                             !.leaks = MapDel(st.leaks, rel[i].Address),
                             !.reclaimed = @ \cup {AllocId(a)}], rel, i + 1)

\* The subsequence of s at the indices of I.
RECURSIVE SubSeq2(_, _, _)
SubSeq2(s, I, i) ==
  IF i > Len(s) THEN <<>>
  ELSE (IF i \in I THEN <<s[i]>> ELSE <<>>) \o SubSeq2(s, I, i + 1)

gcReturnsError_AnyError(ipErr) == ipErr # "nil"

\* The error check at the end of garbageCollectKnownLeaks: whether it returns
\* the error of ReleaseIPs.
gcReturnsError(ipErr) == ipErr = "other"

\* garbageCollectKnownLeaks from the end of its first loop (col) on, ReleaseIPs
\* returning the options at the indices relIdx and the error ipErr ("nil",
\* "notexist" for ErrorResourceDoesNotExist, "other").
gcFinish(col, relIdx, ipErr) ==
  LET called == Len(col.opts) > 0
      rel == SubSeq2([i \in 1..Len(col.opts) |-> ReleaseOptions(col.opts[i])],
                     relIdx, 1)
      done == gcReleased([c |-> col.c, leaks |-> leaksOf(col.opts), fatal |-> FALSE,
                          reclaimed |-> {}], rel, 1)
  IN IF ~called
     THEN [c |-> col.c, called |-> FALSE, opts |-> {}, snap |-> {},
           resurrected |-> col.resurrected, reclaimed |-> {}, returned |-> {},
           fatal |-> FALSE, err |-> FALSE]
     ELSE [c |-> done.c, called |-> TRUE,
           opts |-> {AllocId(col.opts[i]) : i \in 1..Len(col.opts)},
           snap |-> col.snap, resurrected |-> col.resurrected,
           reclaimed |-> done.reclaimed,
           returned |-> {AllocId(col.opts[i]) : i \in relIdx},
           fatal |-> done.fatal, err |-> gcReturnsError(ipErr)]

\* -------------------------------------------------------- releaseUnusedBlocks

\* The blocks whose latest value received names node n as their host affinity.
AffineBlocks(blocks, n) ==
  {x \in DOMAIN blocks : blocks[x].affinity = HostAffinity(n)}

affinityReleased_KeepPool(c, b, n) ==
  [c EXCEPT
     !.emptyBlocks = MapDel(c.emptyBlocks, b),
     !.blocksByNode = [c.blocksByNode EXCEPT ![n] = @ \ {b}],
     !.nodesByBlock = MapDel(c.nodesByBlock, b),
     !.allBlocks = MapDel(c.allBlocks, b),
     !.brt = MapDel(c.brt, b)]

affinityReleased_KeepNodeIndex(c, b, n) ==
  [c EXCEPT
     !.emptyBlocks = MapDel(c.emptyBlocks, b),
     !.allBlocks = MapDel(c.allBlocks, b),
     !.brt = MapDel(c.brt, b),
     !.pm = pmOnBlockDeleted(c.pm, b)]

\* The caches once ReleaseBlockAffinity has succeeded for block b of node n.
affinityReleased(c, b, n) ==
  [c EXCEPT
     !.emptyBlocks = MapDel(c.emptyBlocks, b),
     !.blocksByNode = [c.blocksByNode EXCEPT ![n] = @ \ {b}],
     !.nodesByBlock = MapDel(c.nodesByBlock, b),
     !.allBlocks = MapDel(c.allBlocks, b),
     !.brt = MapDel(c.brt, b),
     !.pm = pmOnBlockDeleted(c.pm, b)]

\* Whether the node of an empty block has other blocks (the loop's first test).
nodeHasOtherBlocks(c, n) == Cardinality(c.blocksByNode[n]) > 1

RECURSIVE releaseUnusedBlocks(_, _, _, _, _, _)
\* The loop over emptyBlocks, taken in the order `order`, from its i-th element
\* on; ReleaseBlockAffinity fails for the blocks of failB. st: the caches and,
\* for the properties, the calls made: the block, its node, whether the call
\* succeeded, the blocks affine to the node according to allBlocks at the time
\* of the call, the tracker's empty-since time, and the time of the latest
\* update that reported the block in use since then.
releaseUnusedBlocks(st, order, i, failB, grace, t) ==
  IF i > Len(order) THEN st
  ELSE
    LET b == order[i]
        c == st.c
        n == c.emptyBlocks[b]
        mig == nodeIsBeingMigrated(c.knc, n)
        me == markEmpty(c.brt, b, grace, t)
        call == [block |-> b, node |-> n, ok |-> b \notin failB,
                 affine |-> AffineBlocks(c.allBlocks, n),
                 since |-> IF b \in DOMAIN me.brt THEN me.brt[b] ELSE NoTime,
                 usedAt |-> IF b \in DOMAIN usedWhileMarked
                            THEN usedWhileMarked[b] ELSE NoTime]
        next(st2) == releaseUnusedBlocks(st2, order, i + 1, failB, grace, t)
    IN IF ~nodeHasOtherBlocks(c, n) THEN next(st)
       ELSE IF mig.err \/ mig.migrating
       THEN next([st EXCEPT !.c.brt = markInUse(c.brt, b)])
       ELSE IF ~me.ok THEN next([st EXCEPT !.c.brt = me.brt])
       ELSE IF b \notin DOMAIN c.allBlocks THEN next([st EXCEPT !.c.brt = me.brt])
       ELSE IF b \in failB
       THEN next([st EXCEPT !.c.brt = me.brt, !.calls = @ \cup {call}])
       ELSE next([st EXCEPT !.c = affinityReleased([c EXCEPT !.brt = me.brt], b, n),
                            !.calls = @ \cup {call}])

\* --------------------------------------------------------------- releaseNodes

RECURSIVE releaseNodes_StopAtError(_, _, _, _)
releaseNodes_StopAtError(nodes, failN, i, st) ==
  IF i > Len(nodes) \/ st.storedErr # "nil" THEN st
  ELSE releaseNodes_StopAtError(nodes, failN, i + 1,
         [calls |-> Append(st.calls, [node |-> nodes[i], ok |-> nodes[i] \notin failN]),
          storedErr |-> IF nodes[i] \in failN THEN nodes[i] ELSE st.storedErr])

RECURSIVE releaseNodes(_, _, _, _)
\* The loop of releaseNodes over the slice `nodes`, from its i-th element on;
\* cleanupNode calls ReleaseHostAffinities, which fails for the nodes of failN
\* (the error of a node is told from the others by the node's name). st: the
\* calls made so far, in order, each with its node and whether it succeeded,
\* and storedErr ("nil" or an error).
releaseNodes(nodes, failN, i, st) ==
  IF i > Len(nodes) THEN st
  ELSE releaseNodes(nodes, failN, i + 1,
         [calls |-> Append(st.calls, [node |-> nodes[i], ok |-> nodes[i] \notin failN]),
          storedErr |-> IF nodes[i] \in failN THEN nodes[i] ELSE st.storedErr])

\* ------------------------------------------------------------------ syncIPAM

\* What a step that is no sync leaves in `last`; batch tells the batch of
\* deletions that the step handled: "nodeDeletion", "podDeletion" or "none".
NoSync ==
  [op |-> "none", gated |-> FALSE, err |-> FALSE, called |-> FALSE, opts |-> {},
   snap |-> {}, resurrected |-> {}, reclaimed |-> {}, affCalls |-> {},
   hostCalls |-> {}, retry |-> "none", armed |-> FALSE, turn |-> 0,
   returned |-> {}, gcErr |-> FALSE, trace |-> <<>>, ipErr |-> "none",
   batch |-> "none", after |-> "none", hostSeq |-> <<>>, nodeErr |-> "nil"]

ScheduleRetry_Rearm(r) ==
  [timers |-> r.timers + 1,
   backoff |-> IF r.backoff < MaxBackoff THEN r.backoff + 1 ELSE r.backoff]

\* RetryController.ScheduleRetry: the next delay is asked of the rate limiter,
\* which counts one more failure; a timer is armed unless one is armed already.
ScheduleRetry(r) ==
  [timers |-> IF r.timers > 0 THEN r.timers ELSE 1,
   backoff |-> IF r.backoff < MaxBackoff THEN r.backoff + 1 ELSE r.backoff]

\* RetryController.Success: the rate limiter forgets the failures of the key.
Success(r) == [r EXCEPT !.backoff = 0]

\* What the loop calls on the retry controller once syncIPAM has returned err
\* to the case `op` of its select.
retryCall(op, err) ==
  IF op = "sync" THEN (IF err THEN "ScheduleRetry" ELSE "Success") ELSE "none"

\* The loop after syncIPAM has returned (or has ended the process): l is what
\* the call did. In a run of channel syncs with no other step in between,
\* last.turn is 0 in the first, 1 in the second, 2 in the third, and then 1
\* and 2 in turn, so that each is a step even when it changes nothing else;
\* last.after is the batch of deletions whose end came right before the run
\* of syncs ("none" when another step did).
afterSync(op, err, fatal, l) ==
  \E call \in {IF fatal THEN "none" ELSE retryCall(op, err)} :
    /\ last' = [l EXCEPT !.retry = call, !.armed = retryController.timers > 0,
                         !.turn = IF op = "sync" /\ last.op = "sync"
                                  THEN (IF last.turn = 1 THEN 2 ELSE 1) ELSE 0,
                         !.after = IF last.op = "none" THEN last.batch
                                   ELSE last.after]
    /\ retryController' =
         CASE call = "ScheduleRetry" -> ScheduleRetry(retryController)
           [] call = "Success" -> Success(retryController)
           [] OTHER -> retryController

callTrace_NodesFirst(called, affCalls, hostCalls) ==
  [i \in 1..Cardinality(hostCalls) |-> "ReleaseHostAffinities"]
    \o [i \in 1..Cardinality(affCalls) |-> "ReleaseBlockAffinity"]
    \o (IF called THEN <<"ReleaseIPs">> ELSE <<>>)

\* The calls of one syncIPAM on the IPAM client, in the order in which it makes
\* them: garbageCollectKnownLeaks, releaseUnusedBlocks, releaseNodes.
callTrace(called, affCalls, hostCalls) ==
  (IF called THEN <<"ReleaseIPs">> ELSE <<>>)
    \o [i \in 1..Cardinality(affCalls) |-> "ReleaseBlockAffinity"]
    \o [i \in 1..Cardinality(hostCalls) |-> "ReleaseHostAffinities"]

syncGated_StatusOnly(c) == c.syncStatus # "InSync"

syncGated_ReadyOnly(c) == ~c.datastoreReady

\* syncIPAM's readiness gate.
syncGated(c) == ~c.datastoreReady \/ c.syncStatus # "InSync"

\* kick(syncChan): the channel holds at most one kick.
kick(ch) == 1

\* syncIPAM on the caches c, called by `op` ("sync": a kick of syncChan,
\* "tick": the ticker) with chan the content of syncChan at the call. The
\* outside world decides the iteration orders of the Go maps and what the IPAM
\* client answers.
syncIPAM(c, chan, op) ==
  IF syncGated(c)
  THEN /\ SetCtl(c)
       /\ syncChan' = chan
       /\ running' = TRUE
       /\ afterSync(op, FALSE, FALSE, [NoSync EXCEPT !.op = op, !.gated = TRUE])
  ELSE
    \E c1 \in {checkAllocations(c, LeakGracePeriod, now)}, ntr \in {nodesToRelease(c)} :
    \E order \in Orders(c1.cl) :
    \E col \in {gcCollect([c |-> c1, opts |-> <<>>, snap |-> {}, resurrected |-> {}],
                          order, 1)} :
    \* ReleaseIPs returns all the options and no error, or, when the client
    \* can fail, any of them and any error.
    \E relIdx \in (IF ipamAPI = "ok" THEN {1..Len(col.opts)}
                   ELSE SUBSET (1..Len(col.opts))),
       ipErr \in (IF Len(col.opts) = 0 \/ ipamAPI = "ok" THEN {"nil"}
                  ELSE {"nil", "notexist", "other"}) :
    \E gc \in {gcFinish(col, relIdx, ipErr)} :
    \E gcLast \in {[NoSync EXCEPT !.op = op, !.called = gc.called,
                      !.opts = gc.opts, !.snap = gc.snap,
                      !.resurrected = gc.resurrected, !.reclaimed = gc.reclaimed,
                      !.returned = gc.returned, !.gcErr = gc.err,
                      !.ipErr = IF gc.called THEN ipErr ELSE "none"]} :
      IF gc.fatal \/ gc.err
      THEN /\ SetCtl(gc.c)
           /\ syncChan' = chan
           /\ running' = ~gc.fatal
           /\ afterSync(op, TRUE, gc.fatal,
                        [gcLast EXCEPT !.err = TRUE,
                                       !.trace = callTrace(gc.called, {}, {})])
      ELSE \E border \in Orders(DOMAIN gc.c.emptyBlocks),
              failB \in (IF ipamAPI = "ok" THEN {{}} ELSE SUBSET (DOMAIN gc.c.emptyBlocks)),
              failN \in (IF ipamAPI = "ok" THEN {{}} ELSE SUBSET ntr) :
           \E rub \in {releaseUnusedBlocks([c |-> gc.c, calls |-> {}],
                                           border, 1, failB, LeakGracePeriod, now)} :
           \* checkAllocations built the slice of the nodes to release in the
           \* order in which it iterated over the nodes to check.
           \E norder \in Orders(ntr) :
           \E rn \in {releaseNodes(norder, failN, 1, [calls |-> <<>>, storedErr |-> "nil"])} :
           \E c3 \in {IF rn.storedErr # "nil" THEN rub.c ELSE [rub.c EXCEPT !.dirty = {}]} :
             /\ SetCtl(c3)
             /\ syncChan' = IF rn.storedErr = "nil" /\ c3.cl # {} THEN kick(chan) ELSE chan
             /\ running' = TRUE
             /\ afterSync(op, rn.storedErr # "nil", FALSE,
                          [gcLast EXCEPT !.err = (rn.storedErr # "nil"),
                                         !.affCalls = rub.calls,
                                         !.hostCalls = {k.node : k \in Range(rn.calls)},
                                         !.hostSeq = rn.calls,
                                         !.nodeErr = rn.storedErr,
                                         !.trace = callTrace(gc.called, rub.calls,
                                                             Range(rn.calls))])

\* ------------------------------------------------------------------- actions

\* m without the blocks for which the release tracker brt has no entry.
StillMarked(m, brt) == [x \in DOMAIN m \cap DOMAIN brt |-> m[x]]

\* usedWhileMarked after the update of block b to v.
UsedWhileMarked(c, b, v) ==
  StillMarked(IF \E o \in Ords : v.slots[o].used
              THEN MapPut(usedWhileMarked, b, now) ELSE usedWhileMarked, c.brt)

\* A batch of syncer updates is handled update by update and ends with a kick:
\* each update is taken here as a batch of its own.
\* handleUpdate of a block with a value.
BlockUpdate(b, v) ==
  /\ running /\ pc = "select"
  /\ \E c \in {onBlockUpdated(Ctl, b, v)} :
       SetCtl(c) /\ usedWhileMarked' = UsedWhileMarked(c, b, v)
  /\ syncChan' = kick(syncChan)
  /\ last' = NoSync
  /\ UNCHANGED <<LeakGracePeriod, envVars, running, retryController, everInSync>>
  /\ UNCHANGED loopVars

\* handleUpdate of a block without a value.
BlockDelete(b) ==
  /\ running /\ pc = "select"
  /\ \E c \in {onBlockDeleted(Ctl, b)} :
       SetCtl(c) /\ usedWhileMarked' = StillMarked(usedWhileMarked, c.brt)
  /\ syncChan' = kick(syncChan)
  /\ last' = NoSync
  /\ UNCHANGED <<LeakGracePeriod, envVars, running, retryController, everInSync>>
  /\ UNCHANGED loopVars

\* handleUpdate of a node resource.
NodeUpdate(cnode, deleted, kn) ==
  /\ running /\ pc = "select"
  /\ SetCtl(handleNodeUpdate(Ctl, cnode, deleted, kn))
  /\ syncChan' = kick(syncChan)
  /\ last' = NoSync
  /\ UNCHANGED <<LeakGracePeriod, envVars, running, retryController, everInSync, usedWhileMarked>>
  /\ UNCHANGED loopVars

\* handleUpdate of an IP pool resource.
PoolUpdate(pool, deleted) ==
  /\ running /\ pc = "select"
  /\ SetCtl(handlePoolUpdate(Ctl, pool, deleted))
  /\ syncChan' = kick(syncChan)
  /\ last' = NoSync
  /\ UNCHANGED <<LeakGracePeriod, envVars, running, retryController, everInSync, usedWhileMarked>>
  /\ UNCHANGED loopVars

\* handleUpdate of the cluster information resource.
ClusterInformationUpdate(deleted, ready) ==
  /\ running /\ pc = "select"
  /\ SetCtl(handleClusterInformationUpdate(Ctl, deleted, ready))
  /\ syncChan' = kick(syncChan)
  /\ last' = NoSync
  /\ UNCHANGED <<LeakGracePeriod, envVars, running, retryController, everInSync, usedWhileMarked>>
  /\ UNCHANGED loopVars

\* handleUpdate of a sync status.
StatusUpdate(s) ==
  /\ running /\ pc = "select"
  /\ SetCtl([Ctl EXCEPT !.syncStatus = s])
  /\ syncChan' = kick(syncChan)
  /\ everInSync' = (everInSync \/ s = "InSync")
  /\ last' = NoSync
  /\ UNCHANGED <<LeakGracePeriod, envVars, running, retryController, usedWhileMarked>>
  /\ UNCHANGED loopVars

\* A batch of Kubernetes node deletions.
NodeDeletionBatch ==
  /\ running /\ pc = "select"
  /\ SetCtl([Ctl EXCEPT !.full = TRUE])
  /\ syncChan' = kick(syncChan)
  /\ last' = [NoSync EXCEPT !.batch = "nodeDeletion"]
  /\ UNCHANGED <<LeakGracePeriod, envVars, running, retryController, everInSync, usedWhileMarked>>
  /\ UNCHANGED loopVars

\* A batch of Kubernetes pod deletions, here of one pod, of node n
\* (allocationState.markDirtyPodDeleted).
PodDeletionBatch(n) ==
  /\ running /\ pc = "select"
  /\ SetCtl([Ctl EXCEPT !.dirty = @ \cup {n}])
  /\ syncChan' = kick(syncChan)
  /\ last' = [NoSync EXCEPT !.batch = "podDeletion"]
  /\ UNCHANGED <<LeakGracePeriod, envVars, running, retryController, everInSync, usedWhileMarked>>
  /\ UNCHANGED loopVars

\* The ticker fires: a full scan is asked for and syncIPAM runs.
PeriodicSync ==
  /\ running /\ pc = "select"
  /\ syncIPAM([Ctl EXCEPT !.full = TRUE], syncChan, "tick")
  /\ usedWhileMarked' = StillMarked(usedWhileMarked, blockReleaseTracker')
  /\ UNCHANGED <<LeakGracePeriod, envVars, everInSync>>
  /\ UNCHANGED loopVars

\* A kick is taken from syncChan and syncIPAM runs.
TriggeredSync ==
  /\ running /\ pc = "select"
  /\ syncChan = 1
  /\ syncIPAM(Ctl, 0, "sync")
  /\ usedWhileMarked' = StillMarked(usedWhileMarked, blockReleaseTracker')
  /\ UNCHANGED <<LeakGracePeriod, envVars, everInSync>>
  /\ UNCHANGED loopVars

\* A timer of the retry controller pops: it kicks syncChan.
RetryFire ==
  /\ running
  /\ retryController.timers > 0
  /\ retryController' = [retryController EXCEPT !.timers = @ - 1]
  /\ syncChan' = kick(syncChan)
  /\ last' = NoSync
  /\ UNCHANGED <<ctlVars, LeakGracePeriod, envVars, running, everInSync, usedWhileMarked>>
  /\ UNCHANGED loopVars

\* The outside world.
ClockTick ==
  /\ now < MaxTime
  /\ now' = now + 1
  /\ last' = NoSync
  /\ UNCHANGED <<ctlVars, syncChan, LeakGracePeriod, retryController, ipamAPI,
                 podLister, podAPI, nodeLister,
                 calicoNodeAPI, running, everInSync, usedWhileMarked>>
  /\ UNCHANGED loopVars

PodAPIChange(p, v) ==
  /\ podAPI[p] # v
  /\ podAPI' = [podAPI EXCEPT ![p] = v]
  /\ last' = NoSync
  /\ UNCHANGED <<ctlVars, syncChan, LeakGracePeriod, retryController, ipamAPI,
                 now, podLister, nodeLister,
                 calicoNodeAPI, running, everInSync, usedWhileMarked>>
  /\ UNCHANGED loopVars

\* A pod changes and the pod lister's cache has caught up before the next step
\* of the controller.
PodChange(p, v) ==
  /\ podAPI[p] # v \/ podLister[p] # v
  /\ podAPI' = [podAPI EXCEPT ![p] = v]
  /\ podLister' = [podLister EXCEPT ![p] = v]
  /\ last' = NoSync
  /\ UNCHANGED <<ctlVars, syncChan, LeakGracePeriod, retryController, ipamAPI,
                 now, nodeLister,
                 calicoNodeAPI, running, everInSync, usedWhileMarked>>
  /\ UNCHANGED loopVars

\* The pod lister's cache catches up with the API server.
PodListerSync(p) ==
  /\ podLister[p] # podAPI[p]
  /\ podLister' = [podLister EXCEPT ![p] = podAPI[p]]
  /\ last' = NoSync
  /\ UNCHANGED <<ctlVars, syncChan, LeakGracePeriod, retryController, ipamAPI,
                 now, podAPI, nodeLister,
                 calicoNodeAPI, running, everInSync, usedWhileMarked>>
  /\ UNCHANGED loopVars

NodeListerChange(k, v) ==
  /\ nodeLister[k] # v
  /\ nodeLister' = [nodeLister EXCEPT ![k] = v]
  /\ last' = NoSync
  /\ UNCHANGED <<ctlVars, syncChan, LeakGracePeriod, retryController, ipamAPI,
                 now, podLister, podAPI,
                 calicoNodeAPI, running, everInSync, usedWhileMarked>>
  /\ UNCHANGED loopVars

CalicoNodeChange(n, v) ==
  /\ calicoNodeAPI[n] # v
  /\ calicoNodeAPI' = [calicoNodeAPI EXCEPT ![n] = v]
  /\ last' = NoSync
  /\ UNCHANGED <<ctlVars, syncChan, LeakGracePeriod, retryController, ipamAPI,
                 now, podLister, podAPI,
                 nodeLister, running, everInSync, usedWhileMarked>>
  /\ UNCHANGED loopVars

\* ------------------------------------------------------------ specifications

\* NewIPAMController: empty caches, datastoreReady true, no sync status yet.
tickerPeriod_AtLeastFiveMinutes(grace) ==
  IF grace # NilGrace /\ grace > 0 /\ grace \div 2 > FiveMinutes
  THEN grace \div 2 ELSE FiveMinutes

\* The period that acceptScheduleRequests hands to time.NewTicker: five
\* minutes, or half of a grace period that is set and positive (the division of
\* time.Duration, an int64, truncates).
tickerPeriod(grace) ==
  IF grace # NilGrace /\ grace > 0 THEN grace \div 2 ELSE FiveMinutes

\* The task waits in its select with its ticker made, nothing is queued in the
\* deletion channels, no caller waits and the stop channel is open.
Started ==
  /\ pc = "select"
  /\ period = tickerPeriod(LeakGracePeriod)
  /\ stopCh = "open"
  /\ nodeDeletionChan = <<>>
  /\ podDeletionChan = <<>>
  /\ blocked = {}

Constructed ==
  /\ syncStatus = "WaitForDatastore"
  /\ datastoreReady = TRUE
  /\ kubernetesNodesByCalicoName = EmptyMap
  /\ allBlocks = EmptyMap
  /\ allocationsByBlock = {}
  /\ confirmedLeaks = {}
  /\ nodesByBlock = EmptyMap
  /\ blocksByNode = [n \in CNodes |-> {}]
  /\ emptyBlocks = EmptyMap
  /\ fullSyncRequired = FALSE
  /\ byNode = {}
  /\ dirtyNodes = {}
  /\ handleTracker = {}
  /\ blockReleaseTracker = EmptyMap
  /\ poolManager = [allPools |-> {}, blocksByPool |-> EmptyMap, poolsByBlock |-> EmptyMap]
  /\ syncChan = 0
  /\ running = TRUE
  /\ retryController = [timers |-> 0, backoff |-> 0]
  /\ last = NoSync
  /\ everInSync = FALSE
  /\ usedWhileMarked = EmptyMap
  /\ now = 0

\* The controller once the syncer has reported InSync and the kick of that
\* status has been served by a first, empty sync.
InSynced ==
  /\ syncStatus = "InSync"
  /\ datastoreReady = TRUE
  /\ kubernetesNodesByCalicoName = EmptyMap
  /\ allBlocks = EmptyMap
  /\ allocationsByBlock = {}
  /\ confirmedLeaks = {}
  /\ nodesByBlock = EmptyMap
  /\ blocksByNode = [n \in CNodes |-> {}]
  /\ emptyBlocks = EmptyMap
  /\ fullSyncRequired = FALSE
  /\ byNode = {}
  /\ dirtyNodes = {}
  /\ handleTracker = {}
  /\ blockReleaseTracker = EmptyMap
  /\ poolManager = [allPools |-> {}, blocksByPool |-> EmptyMap, poolsByBlock |-> EmptyMap]
  /\ syncChan = 0
  /\ running = TRUE
  /\ retryController = [timers |-> 0, backoff |-> 0]
  /\ last = NoSync
  /\ everInSync = TRUE
  /\ usedWhileMarked = EmptyMap
  /\ now = 0

\* --- Spec: leak collection. One block of two addresses held by the pods p1 and
\* p2 of node n1 under one handle (or by a tunnel address of n1); the pods and
\* the Kubernetes node come and go; no grace period; the calls of the IPAM
\* client succeed.
GCBlockValues ==
  {BlockValue(HostAffinity("n1"), s0, s1) :
     s0 \in {FreeSlot, PodSlot("h1", "p1", "n1")},
     s1 \in {FreeSlot, PodSlot("h1", "p2", "n1")}}
PodOf(p) == IF p = "p1" THEN PodFound("n1", {<<"b1", 0>>}) ELSE PodFound("n1", {<<"b1", 1>>})

Init ==
  /\ InSynced
  /\ LeakGracePeriod = NilGrace
  /\ Started
  /\ podAPI = [p \in PodNames |-> PodOf(p)]
  /\ podLister = [p \in PodNames |-> PodOf(p)]
  /\ nodeLister = [k \in CNodes |-> "found"]
  /\ calicoNodeAPI = [n \in CNodes |-> "k8s"]
  /\ ipamAPI = "ok"

Next ==
  \/ \E v \in GCBlockValues : BlockUpdate("b1", v)
  \/ BlockDelete("b1")
  \/ \E v \in {PodNotFound, PodOf("p1")} : PodAPIChange("p1", v)
  \/ PodListerSync("p1")
  \/ \E v \in {PodNotFound, PodOf("p2")} : PodChange("p2", v)
  \/ NodeListerChange("n1", "notfound")
  \/ PeriodicSync
  \/ TriggeredSync

Spec == Init /\ [][Next]_vars

\* C1 (P1, no premature release): every allocation that a pass of
\* garbageCollectKnownLeaks put into the options of ReleaseIPs was, when it was
\* added, a confirmed leak itself, and so was every allocation tracked under its
\* handle; the options are exactly the allocations so added.
C1_NoPrematureRelease ==
  /\ last.opts = {s.id : s \in last.snap}
  /\ \A s \in last.snap : s.state = "Confirmed" /\ s.tracked \subseteq {"Confirmed"}

\* Both addresses of the handle h1 were passed to ReleaseIPs in one call.
C1_Witness == last.called /\ Cardinality(last.opts) = 2

\* C3 (P3, resurrection safe): an allocation of confirmedLeaks that the pass
\* found valid again is no longer in confirmedLeaks, is not among the options of
\* ReleaseIPs, and is Valid wherever it is indexed; ReleaseIPs is called only
\* with at least one option.
C3_ResurrectionSafe ==
  /\ last.called <=> last.opts # {}
  /\ \A id \in last.resurrected :
       /\ id \notin IdsOf(confirmedLeaks)
       /\ id \notin last.opts
       /\ \A x \in allocationsByBlock \cup byNode \cup handleTracker :
            AllocId(x) = id => x.state = "Valid"

\* A pass found a confirmed leak valid again and made no call.
C3_Witness == last.resurrected # {} /\ ~last.called

\* The ids that the slots of a block value give to allocationsByBlock.
SlotIds(b, v) ==
  {AllocId(NewAllocation(b, o, v.slots[o], 0)) :
     o \in {x \in Ords : v.slots[x].used /\ v.slots[x].hasHandle}}

\* C9 (P6, first half): for every block of allBlocks the ids of its allocations
\* in allocationsByBlock are exactly those of the allocated slots of the cached
\* value that carry a handle; a block that is not in allBlocks has none.
C9_BlockCacheCoherent ==
  \A b \in Blocks :
    IdsOf({a \in allocationsByBlock : a.block = b}) =
      IF b \in DOMAIN allBlocks THEN SlotIds(b, allBlocks[b]) ELSE {}

\* After a sync that released the affinity of a block and dropped it from
\* allBlocks: a cached block whose allocated slot has no handle.
C9_Witness ==
  /\ \E k \in last.affCalls : k.ok /\ k.block \notin DOMAIN allBlocks
  /\ \E b \in DOMAIN allBlocks : allBlocks[b].slots[0] = NoHandleSlot("n1")

\* C10 (P6, second half) as stated: every allocation of allocationsByBlock with
\* a node is in the allocations-by-node view.
C10_NodeViewCoherent ==
  \A a \in allocationsByBlock : a.node # "" => a \in byNode

\* C10 as it holds: every allocation of allocationsByBlock with a node is in
\* the allocations-by-node view unless a pass of garbageCollectKnownLeaks has
\* released it; a released one is in neither the view nor confirmedLeaks.
C10_NodeViewCoherentUnlessReleased ==
  \A a \in allocationsByBlock :
    a.node # "" => IF a.released THEN a \notin byNode /\ a \notin confirmedLeaks
                   ELSE a \in byNode

\* A sync released an address whose allocation is still in allocationsByBlock.
C10_Witness ==
  /\ last.reclaimed # {}
  /\ \E a \in allocationsByBlock : a.released /\ AllocId(a) \in last.reclaimed

\* --- SpecAff: block affinities. Two blocks of the nodes n1 and n2, empty or
\* holding one address of a running pod (or one without a handle); their
\* affinities change and the clock advances; grace period Grace; the calls of
\* the IPAM client can fail.
AffBlockValues(b) ==
  IF b = "b1"
  THEN {BlockValue(aff, s0, FreeSlot) :
          aff \in {NilAffinity, HostAffinity("n1"), HostAffinity("n2")},
          s0 \in {FreeSlot, PodSlot("h1", "p1", "n1")}}
  ELSE {BlockValue(aff, s0, FreeSlot) :
          aff \in {NilAffinity, HostAffinity("n1")},
          s0 \in {FreeSlot, NoHandleSlot("n1")}}
AffPodOf(p) ==
  IF p = "p1" THEN PodFound("n1", {<<"b1", 0>>}) ELSE PodFound("n1", {<<"b2", 0>>})

InitAff ==
  /\ InSynced
  /\ LeakGracePeriod = Grace
  /\ Started
  /\ podAPI = [p \in PodNames |-> AffPodOf(p)]
  /\ podLister = [p \in PodNames |-> AffPodOf(p)]
  /\ nodeLister = [k \in CNodes |-> "found"]
  /\ calicoNodeAPI = [n \in CNodes |-> "k8s"]
  /\ ipamAPI = "failing"

NextAff ==
  \/ \E b \in Blocks : \E v \in AffBlockValues(b) : BlockUpdate(b, v)
  \/ \E b \in Blocks : BlockDelete(b)
  \/ ClockTick
  \/ PeriodicSync
  \/ TriggeredSync

SpecAff == InitAff /\ [][NextAff]_vars

\* C4 (P5, single-block nodes preserved): ReleaseBlockAffinity is never called
\* for a block that is, by the latest block values received, the only block
\* affine to its node.
C4_SingleBlockPreserved ==
  \A k \in last.affCalls : Cardinality(k.affine) > 1

\* C5 (P4, affinity grace), its first half: ReleaseBlockAffinity is called for
\* a block only if the release tracker marked it empty at least the grace
\* period ago and no block update reported an allocated slot in it during the
\* grace period before the call. (Its second half, more than one affine block
\* at the time of the call, is C4.)
C5_AffinityGrace ==
  \A k \in last.affCalls :
    /\ k.since # NoTime
    /\ now - k.since >= LeakGracePeriod
    /\ k.usedAt # NoTime => now - k.usedAt >= LeakGracePeriod

\* --- SpecGrace: the leak grace period. One address of block b1 held by pod p1
\* of node n1; the pod disappears, comes back or moves its address, first at
\* the API server and then in the lister's cache; the Kubernetes node comes and
\* goes; the clock advances; grace period Grace; the calls of the IPAM client
\* succeed.
GraceBlockValues ==
  {BlockValue(HostAffinity("n1"), s0, FreeSlot) :
     s0 \in {FreeSlot, PodSlot("h1", "p1", "n1")}}
GracePodValues ==
  {PodNotFound, PodFound("n1", {<<"b1", 0>>}), PodFound("n1", {<<"b1", 1>>})}

InitGrace ==
  /\ InSynced
  /\ LeakGracePeriod = Grace
  /\ Started
  /\ podAPI = [p \in PodNames |-> PodFound("n1", {<<"b1", 0>>})]
  /\ podLister = [p \in PodNames |-> PodFound("n1", {<<"b1", 0>>})]
  /\ nodeLister = [k \in CNodes |-> "found"]
  /\ calicoNodeAPI = [n \in CNodes |-> "k8s"]
  /\ ipamAPI = "ok"

NextGrace ==
  \/ \E v \in GraceBlockValues : BlockUpdate("b1", v)
  \/ BlockDelete("b1")
  \/ \E v \in GracePodValues : PodAPIChange("p1", v)
  \/ PodListerSync("p1")
  \/ \E v \in {"found", "notfound"} : NodeListerChange("n1", v)
  \/ ClockTick
  \/ PeriodicSync
  \/ TriggeredSync

SpecGrace == InitGrace /\ [][NextGrace]_vars

\* Whether the Kubernetes node of Calico node n is absent, as a scan sees it.
KubernetesNodeAbsent(n) ==
  LET k == kubernetesNodeForCalico(kubernetesNodesByCalicoName, n) IN
  ~k.err /\ (k.name = "" \/ nodeLister[k.name] = "notfound")

\* C2 (P2, grace honored): with a grace period G > 0, in every step and for every
\* pod allocation: it becomes Confirmed only if its Kubernetes node is absent
\* or it was a Candidate since at least G; while it stays a Candidate its
\* timestamp does not change; it becomes a Candidate with the current time as
\* its timestamp; and it is released only as a confirmed leak.
C2_GraceHonored ==
  [][LeakGracePeriod > 0 =>
       \A a \in allocationsByBlock : \A b \in allocationsByBlock' :
         (AllocId(a) = AllocId(b) /\ a.gen = b.gen) =>
           /\ (a.state # "Confirmed" /\ b.state = "Confirmed") =>
                \/ KubernetesNodeAbsent(a.node)
                \/ a.state = "Candidate" /\ now - a.since >= LeakGracePeriod
           /\ (a.state = "Candidate" /\ b.state = "Candidate") => b.since = a.since
           /\ (a.state = "Valid" /\ b.state = "Candidate") => b.since = now
           /\ (~a.released /\ b.released) => b.state = "Confirmed"]_vars

\* A sync released an address that was a Candidate for the grace period while
\* its Kubernetes node existed.
C2_Witness ==
  /\ last.reclaimed # {}
  /\ nodeLister["n1"] = "found"
  /\ \E a \in allocationsByBlock :
       a.released /\ a.since # NoTime /\ now - a.since >= LeakGracePeriod

\* --- SpecGate: the gates of syncIPAM. From the controller as constructed:
\* sync statuses and cluster information updates arrive among block and node
\* updates and deletion batches, while pod p1 and the Kubernetes node of n1
\* disappear; no grace period; the calls of the IPAM client can fail.
GateBlockValues ==
  {BlockValue(HostAffinity("n1"), s0, FreeSlot) :
     s0 \in {FreeSlot, PodSlot("h1", "p1", "n1")}}

InitGate ==
  /\ Constructed
  /\ LeakGracePeriod = NilGrace
  /\ Started
  /\ podAPI = [p \in PodNames |-> PodOf(p)]
  /\ podLister = [p \in PodNames |-> PodOf(p)]
  /\ nodeLister = [k \in CNodes |-> "found"]
  /\ calicoNodeAPI = [n \in CNodes |-> "k8s"]
  /\ ipamAPI = "failing"

NextGate ==
  \/ \E st \in {"ResyncInProgress", "InSync"} : StatusUpdate(st)
  \/ \E d \in BOOLEAN : \E r \in {"nil", "true", "false"} : ClusterInformationUpdate(d, r)
  \/ \E v \in GateBlockValues : BlockUpdate("b1", v)
  \/ BlockDelete("b1")
  \/ \E d \in BOOLEAN : NodeUpdate("n1", d, "n1")
  \/ NodeDeletionBatch
  \/ PodDeletionBatch("n1")
  \/ PodChange("p1", PodNotFound)
  \/ NodeListerChange("n1", "notfound")
  \/ PeriodicSync
  \/ TriggeredSync

SpecGate == InitGate /\ [][NextGate]_vars

\* C7 (readiness gate): a call of syncIPAM is gated exactly when datastoreReady
\* is false or the sync status is not InSync; a gated call returns nil, calls
\* none of ReleaseIPs, ReleaseBlockAffinity and ReleaseHostAffinities, and
\* leaves every cache as it found it (fullSyncRequired as the ticker set it
\* just before the call).
C7_ReadinessGate ==
  [][/\ last'.op # "none" =>
          (last'.gated <=> (~datastoreReady \/ syncStatus # "InSync"))
     /\ last'.gated =>
          /\ ~last'.err /\ ~last'.called
          /\ last'.affCalls = {} /\ last'.hostCalls = {}
          /\ fullSyncRequired' = (fullSyncRequired \/ last'.op = "tick")
          /\ UNCHANGED <<syncStatus, datastoreReady, kubernetesNodesByCalicoName,
                         allBlocks, allocationsByBlock, confirmedLeaks, nodesByBlock,
                         blocksByNode, emptyBlocks, byNode, dirtyNodes, handleTracker,
                         blockReleaseTracker>>]_vars

\* A sync was gated by datastoreReady alone, with a dirty node whose pod and
\* Kubernetes node are gone.
C7_Witness ==
  /\ last.gated /\ ~datastoreReady /\ syncStatus = "InSync"
  /\ dirtyNodes # {} /\ byNode # {}
  /\ podLister["p1"] = PodNotFound /\ nodeLister["n1"] = "notfound"

\* C8 (status gate) as stated: until an InSync status has been observed no
\* step changes a cache that syncer updates feed.
C8_UpdatesIgnoredBeforeInSync ==
  [][~everInSync' =>
       UNCHANGED <<datastoreReady, kubernetesNodesByCalicoName, allBlocks,
                   allocationsByBlock, nodesByBlock, blocksByNode, emptyBlocks,
                   byNode, handleTracker>>]_vars

\* C8 as it holds: syncer updates are applied whatever the sync status; until
\* an InSync status has been observed no sync goes past the gate: every call
\* of syncIPAM is gated, no allocation is marked as a leak or scanned,
\* confirmedLeaks and the block release tracker stay empty.
C8_NoSyncBeforeInSync ==
  ~everInSync =>
    /\ last.op # "none" => last.gated
    /\ ~last.called /\ last.affCalls = {} /\ last.hostCalls = {}
    /\ confirmedLeaks = {}
    /\ blockReleaseTracker = EmptyMap
    /\ \A a \in allocationsByBlock \cup byNode \cup handleTracker :
         a.state = "Valid" /\ a.knode = "" /\ ~a.released

\* Before any InSync status: a block update has been applied, the pod and the
\* Kubernetes node of its allocation are gone, and a triggered sync was gated.
C8_Witness ==
  /\ ~everInSync /\ datastoreReady
  /\ byNode # {} /\ "b1" \in DOMAIN allBlocks
  /\ podLister["p1"] = PodNotFound /\ nodeLister["n1"] = "notfound"
  /\ last.op = "sync" /\ last.gated

\* --- SpecNode: orphaned nodes. One block of node n1 holding an address of pod
\* p1 and a tunnel address, a Windows-reserved address or one of unknown source;
\* the pod, the Kubernetes node and the Calico node resource come and go, the
\* lister and the Calico API fail, the calls of the IPAM client succeed; no
\* grace period.
NodeBlockValues ==
  {BlockValue(HostAffinity("n1"), s0, s1) :
     s0 \in {FreeSlot, PodSlot("h1", "p1", "n1")},
     s1 \in {FreeSlot, TunnelSlot("ht", "n1"), ReservedSlot("hw", "n1"),
              UnknownSlot("hu", "n1")}}

NextNode ==
  \/ \E v \in NodeBlockValues : BlockUpdate("b1", v)
  \/ \E d \in BOOLEAN : \E kn \in {"", "n1"} : NodeUpdate("n1", d, kn)
  \/ \E v \in {PodNotFound, PodOf("p1")} : PodChange("p1", v)
  \/ \E v \in {"found", "notfound", "error"} : NodeListerChange("n1", v)
  \/ \E v \in {"k8s", "absent", "error", "notk8s"} : CalicoNodeChange("n1", v)
  \/ PeriodicSync
  \/ TriggeredSync

SpecNode == Init /\ [][NextNode]_vars

\* C6 (orphan-node release safety): a sync calls ReleaseHostAffinities for a
\* Calico node only if, as the sync started, the node had no Kubernetes name or
\* the node lister answered NotFound for it (no other answer of the lister,
\* and no failed lookup of the name), and none of the node's allocations was a
\* valid pod address or of unknown source.
C6_OrphanNodeRelease ==
  [][\A n \in last'.hostCalls :
       /\ KubernetesNodeAbsent(n)
       /\ \A a \in byNode :
            a.node = n =>
              /\ isWindowsReserved(a) \/ isPodIP(a) \/ isTunnelAddress(a)
              /\ ~(/\ ~isWindowsReserved(a) /\ isPodIP(a) /\ ~isTunnelAddress(a)
                    /\ allocationIsValid(withKnode(Ctl, a), TRUE))]_vars

\* A sync called ReleaseHostAffinities for n1, which held a tunnel address and
\* the address of a pod that is gone.
C6_Witness ==
  /\ "n1" \in last.hostCalls
  /\ \E a \in allocationsByBlock : isTunnelAddress(a) /\ a.node = "n1"
  /\ \E a \in allocationsByBlock : isPodIP(a) /\ a.node = "n1"

\* --- SpecRetry: failing syncs. One block of node n1 holding the addresses of
\* two pods under one handle, and a second block holding one more address of
\* pod p1 under another handle; the Kubernetes node of n1 is gone and so is pod
\* p1, pod p2 comes and goes: a scan confirms as leaks the addresses whose pod
\* is gone, and ReleaseIPs is called once both are confirmed; it returns any
\* part of the options, with or without an error; the timer of the retry
\* controller pops.
RetryBlockValues ==
  {BlockValue(HostAffinity("n1"), s0, s1) :
     s0 \in {FreeSlot, PodSlot("h1", "p1", "n1")},
     s1 \in {FreeSlot, PodSlot("h1", "p2", "n1")}}

InitRetry ==
  /\ InSynced
  /\ LeakGracePeriod = NilGrace
  /\ Started
  /\ podAPI = [p \in PodNames |-> PodNotFound]
  /\ podLister = [p \in PodNames |-> PodNotFound]
  /\ nodeLister = [k \in CNodes |-> IF k = "n1" THEN "notfound" ELSE "found"]
  /\ calicoNodeAPI = [n \in CNodes |-> "k8s"]
  /\ ipamAPI = "failing"

NextRetry ==
  \/ \E v \in RetryBlockValues : BlockUpdate("b1", v)
  \/ \E s0 \in {FreeSlot, PodSlot("h2", "p1", "n1")} :
       BlockUpdate("b2", BlockValue(HostAffinity("n1"), s0, FreeSlot))
  \/ \E v \in {PodNotFound, PodOf("p2")} : PodChange("p2", v)
  \/ PeriodicSync
  \/ TriggeredSync
  \/ RetryFire

SpecRetry == InitRetry /\ [][NextRetry]_vars

\* C11 (retry on sync error): a call of syncIPAM that returned an error, from
\* the sync channel or from the ticker, was followed by a call of
\* ScheduleRetry.
C11_RetryOnEverySyncError ==
  (last.op # "none" /\ last.err /\ running) => last.retry = "ScheduleRetry"

NextRetryLive ==
  \/ \E v \in RetryBlockValues : BlockUpdate("b1", v)
  \/ \E v \in {PodNotFound, PodOf("p2")} : PodChange("p2", v)
  \/ PeriodicSync
  \/ TriggeredSync
  \/ RetryFire

SpecRetryLive == InitRetry /\ [][NextRetryLive]_vars /\ WF_vars(TriggeredSync)

\* C13 (P8, quiescence): once the inputs, the ticker and the retry timer have
\* stopped, so that the only steps left are syncs taken from syncChan, the
\* syncs stop too: from some point on no kick waits in syncChan.
C13_Quiescence == <>[](last.op = "sync") => <>[](syncChan = 0)

ScanBlockValues ==
  {BlockValue(HostAffinity("n1"), s0, s1) :
     s0 \in {FreeSlot, PodSlot("h1", "p1", "n1")},
     s1 \in {FreeSlot, TunnelSlot("ht", "n1"), ReservedSlot("hw", "n1"),
              UnknownSlot("hu", "n1")}}

InitScan ==
  /\ InSynced
  /\ LeakGracePeriod \in {NilGrace, Grace}
  /\ Started
  /\ podAPI = [p \in PodNames |-> PodOf(p)]
  /\ podLister = [p \in PodNames |-> PodOf(p)]
  /\ nodeLister = [k \in CNodes |-> "found"]
  /\ calicoNodeAPI = [n \in CNodes |-> "k8s"]
  /\ ipamAPI = "ok"

NextScan ==
  \/ \E v \in ScanBlockValues : BlockUpdate("b1", v)
  \/ \E v \in {PodNotFound, PodOf("p1")} : PodChange("p1", v)
  \/ \E v \in {"found", "notfound"} : NodeListerChange("n1", v)
  \/ CalicoNodeChange("n1", "absent")
  \/ ClockTick
  \/ PeriodicSync
  \/ TriggeredSync

SpecScan == InitScan /\ [][NextScan]_vars

\* C15 (Windows-reserved allocations): after every step a Windows-reserved
\* allocation is Valid wherever it is indexed, is not in confirmedLeaks, is
\* not released and is not among the options of ReleaseIPs; and a sync that
\* returns nil and scans a node whose Kubernetes node is absent and whose
\* allocations are Windows-reserved ones, tunnel addresses and addresses of
\* pods that are gone calls ReleaseHostAffinities for it.
C15_WindowsReservedSkipped ==
  [][/\ \A a \in allocationsByBlock' \cup byNode' \cup handleTracker' \cup confirmedLeaks' :
          isWindowsReserved(a) =>
            /\ a.state = "Valid" /\ ~a.released
            /\ AllocId(a) \notin IdsOf(confirmedLeaks')
            /\ AllocId(a) \notin last'.opts
     /\ \A n \in CNodes :
          (/\ last'.op # "none" /\ ~last'.gated /\ ~last'.err
           /\ last'.op = "tick" \/ fullSyncRequired \/ n \in dirtyNodes
           /\ KubernetesNodeAbsent(n)
           /\ \E a \in byNode : a.node = n /\ isWindowsReserved(a)
           /\ \A a \in byNode :
                a.node = n =>
                  \/ isWindowsReserved(a)
                  \/ isTunnelAddress(a)
                  \/ isPodIP(a) /\ ~allocationIsValid(withKnode(Ctl, a), TRUE))
            => n \in last'.hostCalls]_vars

\* A sync released the address of pod p1 and called ReleaseHostAffinities for
\* n1 while the block held a Windows-reserved address of n1.
C15_Witness ==
  /\ last.reclaimed # {} /\ "n1" \in last.hostCalls
  /\ \E a \in byNode : isWindowsReserved(a) /\ a.node = "n1" /\ a.knode = "n1"

\* C16 (tunnel addresses): after every step no tunnel allocation is a
\* Candidate, and a tunnel allocation of confirmedLeaks is Confirmed; a tunnel
\* allocation becomes Confirmed only in a sync, which puts it into
\* confirmedLeaks or releases it, and only if, as the sync started, the
\* Kubernetes node of its node was absent and no allocation of that node was a
\* valid pod address or of unknown source.
C16_TunnelConfirmedWithNode ==
  [][\A b \in allocationsByBlock' \cup byNode' \cup handleTracker' \cup confirmedLeaks' :
       isTunnelAddress(b) =>
         /\ b.state # "Candidate"
         /\ b \in confirmedLeaks' => b.state = "Confirmed"
         /\ (/\ b.state = "Confirmed"
             /\ \A a \in allocationsByBlock :
                  (AllocId(a) = AllocId(b) /\ a.gen = b.gen) => a.state # "Confirmed")
            => /\ last'.op # "none" /\ ~last'.gated
               /\ AllocId(b) \in IdsOf(confirmedLeaks') \/ b.released
               /\ KubernetesNodeAbsent(b.node)
               /\ \A a \in byNode :
                    a.node = b.node =>
                      /\ isWindowsReserved(a) \/ isPodIP(a) \/ isTunnelAddress(a)
                      /\ ~(/\ ~isWindowsReserved(a) /\ isPodIP(a) /\ ~isTunnelAddress(a)
                            /\ allocationIsValid(withKnode(Ctl, a), TRUE))]_vars

\* With a grace period: a scan confirmed the tunnel address of n1 together with
\* the address of pod p1, and the pass released the tunnel address.
C16_Witness ==
  /\ LeakGracePeriod = Grace
  /\ last.reclaimed # {}
  /\ \E a \in allocationsByBlock : isTunnelAddress(a) /\ a.released
  /\ \E a \in allocationsByBlock : isPodIP(a) /\ a.state = "Confirmed"

\* A pod allocation that a scan finds invalid.
InvalidPod(a) ==
  /\ ~isWindowsReserved(a) /\ isPodIP(a) /\ ~isTunnelAddress(a)
  /\ ~allocationIsValid(withKnode(Ctl, a), TRUE)

\* Whether the scan of a sync run as `op` looks at node n.
Scans(op, n) == op = "tick" \/ fullSyncRequired \/ n \in dirtyNodes

\* C17 (direct confirmation on an absent node): after a sync whose scan looked
\* at the node, every pod allocation that was invalid as the sync started, on
\* a node whose Kubernetes node was absent, is Confirmed, and is in
\* confirmedLeaks unless the same sync released it, whatever its state and the
\* grace period were.
C17_DirectConfirmation ==
  [][\A a \in byNode :
       (/\ last'.op # "none" /\ ~last'.gated /\ Scans(last'.op, a.node)
        /\ InvalidPod(a) /\ KubernetesNodeAbsent(a.node))
         => \E b \in allocationsByBlock' :
              /\ AllocId(b) = AllocId(a) /\ b.gen = a.gen
              /\ b.state = "Confirmed"
              /\ b.released \/ b \in confirmedLeaks']_vars

\* With a grace period: an address was a Candidate for less than the grace
\* period when a sync found its Kubernetes node absent, confirmed it and
\* released it.
C17_Witness ==
  /\ LeakGracePeriod = Grace /\ last.reclaimed # {}
  /\ nodeLister["n1"] = "notfound"
  /\ \E a \in allocationsByBlock :
       /\ isPodIP(a) /\ a.state = "Confirmed" /\ a.released
       /\ a.since # NoTime /\ now - a.since < LeakGracePeriod

PhaseOf(call) ==
  CASE call = "ReleaseIPs" -> 1
    [] call = "ReleaseBlockAffinity" -> 2
    [] OTHER -> 3

ScanNodesToRelease(op) ==
  nodesToRelease([Ctl EXCEPT !.full = @ \/ op = "tick"])

\* C21 (ResourceDoesNotExist is success): in a sync that called ReleaseIPs,
\* when the call returned no error or a ResourceDoesNotExist error,
\* garbageCollectKnownLeaks returned nil and the sync went on: releaseNodes was
\* handed the nodes the scan had found; when the call returned any other error,
\* garbageCollectKnownLeaks returned it, the sync returned an error and made no
\* further call of the IPAM client.
C21_NotExistIsSuccess ==
  [][(last'.called /\ running') =>
       /\ last'.ipErr \in {"nil", "notexist", "other"}
       /\ last'.ipErr \in {"nil", "notexist"} =>
            /\ ~last'.gcErr
            /\ last'.hostCalls = ScanNodesToRelease(last'.op)
            /\ last'.err => last'.hostCalls # {}
            /\ ~last'.err => dirtyNodes' = {}
       /\ last'.ipErr = "other" =>
            /\ last'.gcErr /\ last'.err
            /\ last'.trace = <<"ReleaseIPs">>]_vars

\* ReleaseIPs returned ResourceDoesNotExist and none of its two options; the
\* sync went on to release the affinity of the empty block b2 and the
\* affinities of n1, and returned nil.
C21_Witness ==
  /\ last.called /\ last.ipErr = "notexist" /\ ~last.err
  /\ Cardinality(last.opts) = 2 /\ last.returned = {}
  /\ last.trace = <<"ReleaseIPs", "ReleaseBlockAffinity", "ReleaseHostAffinities">>

\* C22 (grace-period scenario): with a grace period G, a sync scans the node of
\* a pod allocation whose pod is absent (for the lister and for the API
\* server) while its Kubernetes node exists. If the allocation was Valid it is
\* a Candidate since now afterwards; if it was a Candidate for less than G it
\* still is, since the same time; in both cases it is neither released nor
\* among the options of ReleaseIPs. If it was a Candidate for G or more it is
\* Confirmed afterwards, and the same sync passed it to ReleaseIPs and
\* released it.
C22_GraceScenario ==
  [][LeakGracePeriod > 0 =>
       \A a \in byNode :
         (/\ last'.op # "none" /\ ~last'.gated /\ Scans(last'.op, a.node)
          /\ isPodIP(a)
          /\ podLister[a.pod] = PodNotFound /\ podAPI[a.pod] = PodNotFound
          /\ kubernetesNodeExists(Ctl, a.node))
           => \E b \in allocationsByBlock' :
                /\ AllocId(b) = AllocId(a) /\ b.gen = a.gen
                /\ a.state = "Valid" =>
                     /\ b.state = "Candidate" /\ b.since = now
                     /\ ~b.released /\ AllocId(b) \notin last'.opts
                /\ (a.state = "Candidate" /\ now - a.since < LeakGracePeriod) =>
                     /\ b.state = "Candidate" /\ b.since = a.since
                     /\ ~b.released /\ AllocId(b) \notin last'.opts
                /\ (a.state = "Candidate" /\ now - a.since >= LeakGracePeriod) =>
                     /\ b.state = "Confirmed"
                     /\ AllocId(b) \in last'.opts /\ b.released]_vars

\* The address of pod p1 became a Candidate at time 0 while its Kubernetes node
\* existed, and the first sync at the end of the grace period confirmed it and
\* released it.
C22_Witness ==
  /\ LeakGracePeriod = Grace /\ now = Grace
  /\ last.called /\ last.reclaimed # {} /\ last.reclaimed = last.opts
  /\ nodeLister["n1"] = "found" /\ podAPI["p1"] = PodNotFound
  /\ \E a \in allocationsByBlock :
       a.released /\ a.state = "Confirmed" /\ a.since = 0 /\ a.knode = "n1"

FullScanNodes == Range(nodesByBlock) \cup {a.node : a \in byNode}

\* C29 (full-scan request is honoured): fullSyncRequired is set after a node
\* deletion batch, and once set it stays set through every step that is not a
\* sync and every sync that the readiness gate stops, also a sync of the
\* ticker. A sync that passes the gate leaves fullSyncRequired false; it
\* inspects the nodes of the full scan when the flag was set (or the sync is
\* the ticker's) and the dirty nodes otherwise: an allocation of an inspected
\* node gets the Kubernetes name looked up for its node, an allocation of
\* another node keeps its name and stays Valid if it was, and the nodes handed
\* to ReleaseHostAffinities are the inspected nodes whose Kubernetes node is
\* absent and that hold no valid or unknown allocation.
C29_FullScanHonoured ==
  [][/\ last'.batch = "nodeDeletion" => fullSyncRequired'
     /\ (fullSyncRequired /\ (last'.op = "none" \/ last'.gated)) => fullSyncRequired'
     /\ (last'.op = "tick" /\ last'.gated) => fullSyncRequired'
     /\ (last'.op # "none" /\ ~last'.gated) =>
          \E N \in {IF fullSyncRequired \/ last'.op = "tick"
                    THEN FullScanNodes ELSE dirtyNodes} :
            /\ ~fullSyncRequired'
            /\ \A a \in byNode : \A b \in byNode' :
                 (AllocId(a) = AllocId(b) /\ a.gen = b.gen) =>
                   IF /\ a.node \in N
                      /\ ~kubernetesNodeForCalico(kubernetesNodesByCalicoName, a.node).err
                   THEN b.knode =
                          kubernetesNodeForCalico(kubernetesNodesByCalicoName, a.node).name
                   ELSE b.knode = a.knode /\ (a.state = "Valid" => b.state = "Valid")
            /\ (~last'.gcErr /\ running') =>
                 last'.hostCalls =
                   {n \in N : KubernetesNodeAbsent(n) /\ canDelete(Ctl, n)}]_vars

\* A sync taken from syncChan passed the gate and released the affinities of
\* n1, which holds no allocation and whose block is in the affinity index.
C29_Witness ==
  /\ last.op = "sync" /\ ~last.gated /\ "n1" \in last.hostCalls
  /\ ~fullSyncRequired /\ byNode = {} /\ allocationsByBlock = {}
  /\ "b1" \in DOMAIN nodesByBlock

\* --- SpecRelease: the release of orphaned nodes. The blocks b1 of node n1 and
\* b2 of node n2, each empty or holding the address of a pod that is gone; the
\* Kubernetes node of n1 is gone and that of n2 comes and goes;
\* ReleaseHostAffinities fails for any of the nodes handed to releaseNodes.
ReleaseBlockValues(b) ==
  IF b = "b1"
  THEN {BlockValue(HostAffinity("n1"), s0, FreeSlot) :
          s0 \in {FreeSlot, PodSlot("h1", "p1", "n1")}}
  ELSE {BlockValue(HostAffinity("n2"), s0, FreeSlot) :
          s0 \in {FreeSlot, PodSlot("h2", "p2", "n2")}}

NextRelease ==
  \/ \E b \in Blocks : \E v \in ReleaseBlockValues(b) : BlockUpdate(b, v)
  \/ \E v \in {"found", "notfound"} : NodeListerChange("n2", v)
  \/ NodeDeletionBatch
  \/ PeriodicSync
  \/ TriggeredSync
  \/ RetryFire

SpecRelease == InitRetry /\ [][NextRelease]_vars

\* The error of the first, and of the last, failed call of a sequence of
\* ReleaseHostAffinities calls; "nil" when none failed.
FirstError(calls) ==
  IF \A i \in DOMAIN calls : calls[i].ok THEN "nil"
  ELSE calls[CHOOSE i \in DOMAIN calls :
               ~calls[i].ok /\ \A j \in 1..(i - 1) : calls[j].ok].node
LastError(calls) ==
  IF \A i \in DOMAIN calls : calls[i].ok THEN "nil"
  ELSE calls[CHOOSE i \in DOMAIN calls :
               ~calls[i].ok /\ \A j \in (i + 1)..Len(calls) : calls[j].ok].node

\* C30 (releaseNodes), as stated: in a sync that reaches releaseNodes,
\* ReleaseHostAffinities is called exactly once for every node that the scan
\* decided to release, whether or not an earlier call failed; the result is
\* nil exactly when every call succeeded, and otherwise it is the first error
\* encountered.
C30_ReturnsFirstError ==
  [][(last'.op # "none" /\ ~last'.gated /\ ~last'.gcErr /\ running') =>
       \E S \in {ScanNodesToRelease(last'.op)} :
         /\ {k.node : k \in Range(last'.hostSeq)} = S
         /\ Len(last'.hostSeq) = Cardinality(S)
         /\ last'.err <=> \E k \in Range(last'.hostSeq) : ~k.ok
         /\ last'.nodeErr = "nil" <=> ~last'.err
         /\ last'.nodeErr = FirstError(last'.hostSeq)]_vars

\* C30 (releaseNodes), as it holds: as above, and when a call failed the
\* result is the last error encountered.
C30_ReturnsLastError ==
  [][(last'.op # "none" /\ ~last'.gated /\ ~last'.gcErr /\ running') =>
       \E S \in {ScanNodesToRelease(last'.op)} :
         /\ {k.node : k \in Range(last'.hostSeq)} = S
         /\ Len(last'.hostSeq) = Cardinality(S)
         /\ last'.err <=> \E k \in Range(last'.hostSeq) : ~k.ok
         /\ last'.nodeErr = "nil" <=> ~last'.err
         /\ last'.nodeErr = LastError(last'.hostSeq)]_vars

\* releaseNodes was handed n1 and n2; the call for the first of them failed,
\* the call for the second was made and succeeded, and an error was returned.
C30_Witness ==
  /\ Len(last.hostSeq) = 2
  /\ ~last.hostSeq[1].ok /\ last.hostSeq[2].ok
  /\ last.err /\ last.nodeErr = last.hostSeq[1].node

\* ------------------------------------------------ acceptScheduleRequests

chanSend_NeverWaits(ch, x) == [ch |-> Append(ch, x), waits |-> FALSE]

\* A send to a channel made with the capacity BatchUpdateSize: the value is
\* queued when there is room, and the sender waits otherwise.
chanSend(ch, x) ==
  IF Len(ch) < BatchUpdateSize
  THEN [ch |-> Append(ch, x), waits |-> FALSE]
  ELSE [ch |-> ch, waits |-> TRUE]

\* A receive from the channel `kind` with the content ch: the head is taken and
\* the value of a sender that waits takes the room.
chanRecv(ch, kind) ==
  LET w == {k \in blocked : k.chan = kind}
  IN [item |-> Head(ch),
      ch |-> IF w = {} THEN Tail(ch) ELSE Append(Tail(ch), (CHOOSE k \in w : TRUE).item),
      blocked |-> blocked \ w]

\* acceptScheduleRequests, before its loop: the ticker is made with the period
\* of tickerPeriod; time.NewTicker panics when the period is not positive.
Start ==
  /\ running /\ pc = "start"
  /\ period' = tickerPeriod(LeakGracePeriod)
  /\ running' = (period' > 0)
  /\ pc' = IF period' > 0 THEN "select" ELSE pc
  /\ last' = NoSync
  /\ UNCHANGED <<ctlVars, syncChan, LeakGracePeriod, envVars, retryController,
                 everInSync, usedWhileMarked>>
  /\ UNCHANGED <<stopCh, nodeDeletionChan, podDeletionChan, blocked>>

\* OnKubernetesNodeDeleted, called by the node informer: one send to
\* nodeDeletionChan.
OnKubernetesNodeDeleted ==
  /\ running
  /\ \A k \in blocked : k.chan # "nodeDeletion"
  /\ \E r \in {chanSend(nodeDeletionChan, "struct")} :
       /\ nodeDeletionChan' = r.ch
       /\ blocked' = IF r.waits
                     THEN blocked \cup {[chan |-> "nodeDeletion", item |-> "struct"]}
                     ELSE blocked
  /\ last' = NoSync
  /\ UNCHANGED <<ctlVars, syncChan, LeakGracePeriod, envVars, running,
                 retryController, everInSync, usedWhileMarked>>
  /\ UNCHANGED <<pc, period, stopCh, podDeletionChan>>

\* OnKubernetesPodDeleted, called by the pod informer with a pod of node n: one
\* send to podDeletionChan.
OnKubernetesPodDeleted(n) ==
  /\ running
  /\ \A k \in blocked : k.chan # "podDeletion"
  /\ \E r \in {chanSend(podDeletionChan, n)} :
       /\ podDeletionChan' = r.ch
       /\ blocked' = IF r.waits
                     THEN blocked \cup {[chan |-> "podDeletion", item |-> n]}
                     ELSE blocked
  /\ last' = NoSync
  /\ UNCHANGED <<ctlVars, syncChan, LeakGracePeriod, envVars, running,
                 retryController, everInSync, usedWhileMarked>>
  /\ UNCHANGED <<pc, period, stopCh, nodeDeletionChan>>

\* The select takes a value from a deletion channel, or utils.ProcessBatch,
\* begun with that value, takes one more: a pod goes to
\* allocationState.markDirtyPodDeleted, which marks its node dirty; a node
\* deletion has no handler.
BatchReceive(kind) ==
  /\ running /\ pc \in {"select", kind}
  /\ \E ch \in {IF kind = "nodeDeletion" THEN nodeDeletionChan ELSE podDeletionChan} :
       /\ ch # <<>>
       /\ \E r \in {chanRecv(ch, kind)} :
            /\ blocked' = r.blocked
            /\ IF kind = "nodeDeletion"
               THEN /\ nodeDeletionChan' = r.ch
                    /\ podDeletionChan' = podDeletionChan
                    /\ SetCtl(Ctl)
               ELSE /\ podDeletionChan' = r.ch
                    /\ nodeDeletionChan' = nodeDeletionChan
                    /\ SetCtl([Ctl EXCEPT !.dirty = @ \cup {r.item}])
  /\ pc' = kind
  /\ last' = NoSync
  /\ UNCHANGED <<syncChan, LeakGracePeriod, envVars, running, retryController,
                 everInSync, usedWhileMarked>>
  /\ UNCHANGED <<period, stopCh>>

BatchEnd_NoKick(kind) ==
  /\ running /\ pc = kind
  /\ SetCtl([Ctl EXCEPT !.full = @ \/ kind = "nodeDeletion"])
  /\ pc' = "select"
  /\ last' = [NoSync EXCEPT !.batch = kind]
  /\ UNCHANGED <<syncChan, LeakGracePeriod, envVars, running, retryController,
                 everInSync, usedWhileMarked>>
  /\ UNCHANGED <<period, stopCh, nodeDeletionChan, podDeletionChan, blocked>>

\* utils.ProcessBatch returns: after a batch of node deletions
\* fullScanNextSync, and after either batch a kick.
BatchEnd(kind) ==
  /\ running /\ pc = kind
  /\ SetCtl([Ctl EXCEPT !.full = @ \/ kind = "nodeDeletion"])
  /\ syncChan' = kick(syncChan)
  /\ pc' = "select"
  /\ last' = [NoSync EXCEPT !.batch = kind]
  /\ UNCHANGED <<LeakGracePeriod, envVars, running, retryController, everInSync,
                 usedWhileMarked>>
  /\ UNCHANGED <<period, stopCh, nodeDeletionChan, podDeletionChan, blocked>>

\* pause(): the select takes a request from pauseRequestChannel, confirms it
\* and waits for doneChan; the caller of pause() then lets the task go on.
PauseRequest ==
  /\ running /\ pc \in {"select", "paused"}
  /\ pc' = IF pc = "select" THEN "paused" ELSE "select"
  /\ last' = NoSync
  /\ UNCHANGED <<ctlVars, syncChan, LeakGracePeriod, envVars, running,
                 retryController, everInSync, usedWhileMarked>>
  /\ UNCHANGED <<period, stopCh, nodeDeletionChan, podDeletionChan, blocked>>

\* The owner of the controller closes the stop channel.
CloseStop ==
  /\ running /\ stopCh = "open"
  /\ stopCh' = "closed"
  /\ last' = NoSync
  /\ UNCHANGED <<ctlVars, syncChan, LeakGracePeriod, envVars, running,
                 retryController, everInSync, usedWhileMarked>>
  /\ UNCHANGED <<pc, period, nodeDeletionChan, podDeletionChan, blocked>>

LoopStop_Ignored ==
  /\ running /\ pc = "select" /\ stopCh = "closed"
  /\ last' = NoSync
  /\ UNCHANGED <<ctlVars, syncChan, LeakGracePeriod, envVars, running,
                 retryController, everInSync, usedWhileMarked, loopVars>>

\* The select takes the closed stop channel and acceptScheduleRequests returns.
LoopStop ==
  /\ running /\ pc = "select" /\ stopCh = "closed"
  /\ pc' = "stopped"
  /\ last' = NoSync
  /\ UNCHANGED <<ctlVars, syncChan, LeakGracePeriod, envVars, running,
                 retryController, everInSync, usedWhileMarked>>
  /\ UNCHANGED <<period, stopCh, nodeDeletionChan, podDeletionChan, blocked>>

\* --- SpecLoop: the task from its start, without a grace period. Block b1 of node n1 holds the addresses of the pods p1 and p2
\* under one handle; p1 is gone, p2 lives and the Kubernetes node of n1 is
\* gone. The informers report deletions of nodes and of pods of n1 and n2; the
\* task is paused, let go and stopped.
InitLoop ==
  /\ Constructed
  /\ LeakGracePeriod = NilGrace
  /\ pc = "start"
  /\ period = NoTime
  /\ stopCh = "open"
  /\ nodeDeletionChan = <<>>
  /\ podDeletionChan = <<>>
  /\ blocked = {}
  /\ podAPI = [p \in PodNames |-> IF p = "p2" THEN PodOf(p) ELSE PodNotFound]
  /\ podLister = [p \in PodNames |-> IF p = "p2" THEN PodOf(p) ELSE PodNotFound]
  /\ nodeLister = [k \in CNodes |-> IF k = "n1" THEN "notfound" ELSE "found"]
  /\ calicoNodeAPI = [n \in CNodes |-> "k8s"]
  /\ ipamAPI = "ok"

NextLoop ==
  \/ Start
  \/ StatusUpdate("InSync")
  \/ \E v \in RetryBlockValues : BlockUpdate("b1", v)
  \/ OnKubernetesNodeDeleted
  \/ \E n \in CNodes : OnKubernetesPodDeleted(n)
  \/ \E kind \in {"nodeDeletion", "podDeletion"} : BatchReceive(kind)
  \/ \E kind \in {"nodeDeletion", "podDeletion"} : BatchEnd(kind)
  \/ TriggeredSync
  \/ PauseRequest
  \/ CloseStop
  \/ LoopStop

SpecLoop == InitLoop /\ [][NextLoop]_vars

\* --- SpecTicker: the start of the task under every configuration of the grace
\* period: none, or a duration from 0 to MaxGracePeriod.
InitTicker ==
  /\ Constructed
  /\ LeakGracePeriod \in {NilGrace} \cup (0 .. MaxGracePeriod)
  /\ pc = "start"
  /\ period = NoTime
  /\ stopCh = "open"
  /\ nodeDeletionChan = <<>>
  /\ podDeletionChan = <<>>
  /\ blocked = {}
  /\ podAPI = [p \in PodNames |-> PodNotFound]
  /\ podLister = [p \in PodNames |-> PodNotFound]
  /\ nodeLister = [k \in CNodes |-> "found"]
  /\ calicoNodeAPI = [n \in CNodes |-> "k8s"]
  /\ ipamAPI = "ok"

SpecTicker == InitTicker /\ [][Start]_vars

chanOf(kind) == IF kind = "nodeDeletion" THEN nodeDeletionChan ELSE podDeletionChan

\* C25 (enqueues), as stated: no call of OnKubernetesNodeDeleted or of
\* OnKubernetesPodDeleted waits for the task, in any state of the task and
\* whatever is queued.
C25_EnqueueNeverWaits == blocked = {}

\* C25 (enqueues): the deletion channels hold at most BatchUpdateSize signals;
\* in every state of the task a call made while its channel has room queues
\* its signal and returns; a call made while its channel is full queues
\* nothing and waits, and a call that waits finds its channel full for as long
\* as it waits.
C25_EnqueueWaitsWhenFull ==
  [][/\ \A kind \in {"nodeDeletion", "podDeletion"} :
          /\ Len(chanOf(kind)') <= BatchUpdateSize
          /\ (\E x \in CNodes \cup {"struct"} : chanOf(kind)' = Append(chanOf(kind), x))
               => Len(chanOf(kind)) < BatchUpdateSize /\ blocked' = blocked
     /\ \A k \in blocked' :
          /\ Len(chanOf(k.chan)') = BatchUpdateSize
          /\ k \notin blocked =>
               /\ chanOf(k.chan) = chanOf(k.chan)'
               /\ pc' = pc]_vars

\* The task has returned with both channels full, and a call of each of the
\* two functions waits in its send.
C25_Witness ==
  /\ pc = "stopped"
  /\ Len(nodeDeletionChan) = BatchUpdateSize /\ Len(podDeletionChan) = BatchUpdateSize
  /\ {k.chan : k \in blocked} = {"nodeDeletion", "podDeletion"}

\* --- SpecLoopLive: SpecLoop with the deleted pods all of node n1, with the
\* ticker, and with the scheduling of the task. A select of Go
\* picks at random among its ready cases, so a case that is ready at infinitely
\* many selects is taken (strong fairness of the kick and of the stop case);
\* the timer of ProcessBatch ends every batch, the task starts, and the caller
\* of pause() lets the task go on (weak fairness).
NextLoopLive ==
  \/ Start
  \/ StatusUpdate("InSync")
  \/ \E v \in RetryBlockValues : BlockUpdate("b1", v)
  \/ OnKubernetesNodeDeleted
  \/ OnKubernetesPodDeleted("n1")
  \/ \E kind \in {"nodeDeletion", "podDeletion"} : BatchReceive(kind)
  \/ \E kind \in {"nodeDeletion", "podDeletion"} : BatchEnd(kind)
  \/ TriggeredSync
  \/ PeriodicSync
  \/ PauseRequest
  \/ CloseStop
  \/ LoopStop

SpecLoopLive ==
  /\ InitLoop /\ [][NextLoopLive]_vars
  /\ WF_vars(Start)
  /\ WF_vars(\E kind \in {"nodeDeletion", "podDeletion"} : BatchEnd(kind))
  /\ WF_vars(pc = "paused" /\ PauseRequest)
  /\ SF_vars(TriggeredSync)
  /\ SF_vars(LoopStop)

\* C27 (stop): once the stop channel is closed the task returns, at one of its
\* next selects under the fair choice among the ready cases; and once it has
\* returned it stays so, changes no cache, takes nothing from its channels,
\* sends no kick, runs no sync and calls the IPAM client no more.
C27_StopTerminates ==
  /\ (stopCh = "closed") ~> (pc = "stopped")
  /\ [][pc = "stopped" =>
         /\ pc' = "stopped"
         /\ UNCHANGED <<ctlVars, syncChan, retryController, running>>
         /\ Len(nodeDeletionChan') >= Len(nodeDeletionChan)
         /\ Len(podDeletionChan') >= Len(podDeletionChan)
         /\ last'.op = "none" /\ last'.batch = "none" /\ ~last'.called
         /\ last'.affCalls = {} /\ last'.hostCalls = {}]_vars

\* The task has returned with work left: a kick waits in syncChan, a node is
\* dirty and a pod deletion is queued.
C27_Witness ==
  /\ pc = "stopped" /\ stopCh = "closed"
  /\ syncChan = 1 /\ dirtyNodes # {} /\ podDeletionChan # <<>>

\* C24 (no lost wake-up): syncChan holds at most one kick; every batch of node
\* deletions, of pod deletions or of syncer updates that the task has applied
\* leaves a kick in syncChan and the task back at its select, also when a kick
\* waited already; a kick that waits is taken by a run of syncIPAM unless the
\* task is stopped; and once the caches are in sync, the dirty nodes and the
\* full scan that a batch asked for are taken up by a sync that passes the
\* gate, unless the task is stopped.
C24_NoLostWakeup ==
  /\ [](syncChan \in {0, 1})
  /\ [][/\ last'.batch # "none" => syncChan' = 1 /\ pc' = "select"
        /\ (pc = "select" /\ pc' = "select" /\ last'.op = "none"
              /\ ctlVars' # ctlVars) => syncChan' = 1]_vars
  /\ (syncChan = 1) ~> (last.op = "sync" \/ pc = "stopped")
  /\ (syncStatus = "InSync" /\ (dirtyNodes # {} \/ fullSyncRequired))
       ~> \/ last.op = "sync" /\ ~last.gated /\ dirtyNodes = {} /\ ~fullSyncRequired
          \/ pc = "stopped"

\* A batch of pod deletions has been applied while the caches are in sync: n1
\* is dirty, a kick waits in syncChan and the task is back at its select with
\* a node deletion queued.
C24_Witness ==
  /\ last.batch = "podDeletion" /\ pc = "select" /\ stopCh = "open"
  /\ syncStatus = "InSync" /\ "n1" \in dirtyNodes /\ syncChan = 1
  /\ nodeDeletionChan # <<>>

\* C23 (deletion batching), as stated: no sync runs while a batch of deletions
\* is drained; when a batch of pod deletions ends, the nodes of its pods are
\* dirty; and the batch is followed by one sync taken from syncChan, and by at
\* most one more for what the first has left, when nothing else happens.
C23_OneSyncPerBatch ==
  /\ pc \in {"nodeDeletion", "podDeletion"} => last.op = "none"
  /\ last.batch = "podDeletion" => dirtyNodes # {}
  /\ (last.op = "sync" /\ last.after # "none") => last.turn < 2

\* --- SpecMig: the release of block affinities during a migration. The blocks
\* b1 and b2 are affine to n1, empty or holding one address; the Kubernetes
\* node of n1 is found, carries the migration label, or the lister fails; the
\* clock advances; grace period Grace; the calls of the IPAM client can fail.
NextMig ==
  \/ \E b \in Blocks :
       \E v \in {w \in AffBlockValues(b) : w.affinity = HostAffinity("n1")} :
         BlockUpdate(b, v)
  \/ ClockTick
  \/ \E v \in {"found", "migrating", "error"} : NodeListerChange(KName("n1"), v)
  \/ PeriodicSync
  \/ TriggeredSync

SpecMig == InitAff /\ [][NextMig]_vars

\* C31 (migration guard): ReleaseBlockAffinity is never called for a block
\* whose node carries the migration label or whose migration check fails;
\* after a sync that reached releaseUnusedBlocks, every empty block of such a
\* node that has another block has no entry in the block release tracker; and
\* every call is made at least a grace period after the time the tracker holds
\* for the block.
C31_MigrationGuard ==
  [][last'.op # "none" =>
       /\ \A k \in last'.affCalls :
            /\ nodeLister[KName(k.node)] \notin {"migrating", "error"}
            /\ now - k.since >= LeakGracePeriod
       /\ (~last'.gated /\ ~last'.gcErr /\ running') =>
            \A b \in DOMAIN emptyBlocks' :
              (/\ Cardinality(blocksByNode'[emptyBlocks'[b]]) > 1
               /\ nodeLister[KName(emptyBlocks'[b])] \in {"migrating", "error"})
                => b \notin DOMAIN blockReleaseTracker']_vars

\* A sync examined the empty block b1 of the migrating node n1, which has
\* another block, at a time when the tracker had held b1 for a grace period:
\* no call was made and the tracker has lost its entry for b1.
C31_Witness ==
  /\ last.op # "none" /\ ~last.gated /\ ~last.gcErr /\ last.affCalls = {}
  /\ nodeLister[KName("n1")] = "migrating"
  /\ "b1" \in DOMAIN emptyBlocks /\ Cardinality(blocksByNode["n1"]) > 1
  /\ "b1" \notin DOMAIN blockReleaseTracker
  /\ now >= Grace

\* C35 (affinity indices): in every state, block b is in blocksByNode[n] if and
\* only if nodesByBlock[b] = n, and both hold if and only if the latest value
\* received for b, held in allBlocks, has the host affinity of n.
C35_AffinityIndicesConsistent ==
  \A b \in Blocks, n \in CNodes :
    /\ b \in blocksByNode[n] <=> (b \in DOMAIN nodesByBlock /\ nodesByBlock[b] = n)
    /\ (b \in DOMAIN nodesByBlock /\ nodesByBlock[b] = n)
         <=> (b \in DOMAIN allBlocks /\ allBlocks[b].affinity = HostAffinity(n))

\* C36 (block deletion purges every index): in every state, each allocation in
\* allocationsByBlock, in the per-node allocation state, in the handle tracker
\* or in confirmedLeaks belongs to a block that allBlocks holds, that is, to a
\* block not deleted since the allocation was built; and every option of a
\* ReleaseIPs call is an address of such a block.
C36_BlockDeletePurges ==
  /\ \A x \in allocationsByBlock \cup byNode \cup handleTracker \cup confirmedLeaks :
       x.block \in DOMAIN allBlocks
  /\ \A id \in last.opts : id[3] \in DOMAIN allBlocks

\* C34: every allocation of confirmedLeaks is in the Confirmed state whenever
\* a scan or a sync has returned; an indexed allocation that a later scan finds
\* valid has left the index.
C34_ConfirmedIndexInvariant ==
  \A a \in confirmedLeaks : a.state = "Confirmed"

\* C37: the Fatalf branch of garbageCollectKnownLeaks is never taken, and no
\* two allocations of one release batch have the same address.
C37_FatalUnreachable ==
  /\ running
  /\ \A x, y \in last.opts : (x[3] = y[3] /\ x[4] = y[4]) => x = y

\* --- SpecReuse: an address that changes hands. The first address of block b1
\* is free, or held by pod p1 under handle h1, or by pod p2 under handle h2; the
\* block is deleted and received again; the pods and the Kubernetes node of n1
\* are gone; no grace period; the syncs are those that the kicks of the updates
\* trigger; ReleaseIPs returns any part of the options, with or without an
\* error.
NextReuse ==
  \/ \E s0 \in {FreeSlot, PodSlot("h1", "p1", "n1"), PodSlot("h2", "p2", "n1")} :
       BlockUpdate("b1", BlockValue(HostAffinity("n1"), s0, FreeSlot))
  \/ BlockDelete("b1")
  \/ TriggeredSync

SpecReuse == InitRetry /\ [][NextReuse]_vars

\* C33: a sync from the channel that does a full scan and then fails has a
\* retry scheduled, and every node that it selected for release and did not
\* release is left dirty (or the full scan is still required), so that the
\* retry sync inspects it again.
C33_FullScanNotLost ==
  [][(/\ last'.op = "sync"
      /\ fullSyncRequired
      /\ ~last'.gated
      /\ last'.err) =>
       /\ last'.retry = "ScheduleRetry"
       /\ \A n \in nodesToRelease(Ctl) \ {k.node : k \in {x \in Range(last'.hostSeq) : x.ok}} :
            n \in dirtyNodes' \/ fullSyncRequired']_vars

\* C38: every tunnel allocation of a node that the scan of a sync selects for
\* release (and so marks Confirmed) is among the options of the ReleaseIPs call
\* of the same sync, whether or not the Calico node names a Kubernetes node.
C38_TunnelReleasedWithNode ==
  [][(last'.op # "none" /\ ~last'.gated) =>
       \A a \in byNode :
         (/\ scanClass(a) = "tunnel"
          /\ a.node \in nodesToRelease([Ctl EXCEPT !.full = @ \/ last'.op = "tick"]))
           => AllocId(a) \in last'.opts]_vars

\* --- SpecLeakLive: a leak left to the ticker. Block b1 of node n1 holds the
\* address of pod p1 under handle h1, with or without an address under handle
\* h2; pod p1 disappears for good; the Kubernetes node of n1 comes and goes;
\* grace period Grace; the calls of the IPAM client succeed. The ticker fires
\* and the clock advances (up to MaxTime) whenever they can.
NextLeakLive ==
  \/ \E s1 \in {FreeSlot, PodSlot("h2", "p2", "n1")} :
       BlockUpdate("b1", BlockValue(HostAffinity("n1"), PodSlot("h1", "p1", "n1"), s1))
  \/ PodChange("p1", PodNotFound)
  \/ \E v \in {"found", "notfound"} : NodeListerChange("n1", v)
  \/ ClockTick
  \/ PeriodicSync
  \/ TriggeredSync

SpecLeakLive ==
  /\ InitGrace
  /\ [][NextLeakLive]_vars
  /\ WF_vars(PeriodicSync)
  /\ WF_vars(ClockTick)

\* C39: with a grace period, the datastore ready and in sync, the ticker firing
\* and ReleaseIPs succeeding, the allocation of a pod that is gone for good is
\* in the end released by a ReleaseIPs call and out of confirmedLeaks, with no
\* help from an event that marks its node dirty - unless the clock of the
\* model stops before the grace period of the candidate has passed.
C39_LeaksEventuallyReclaimed ==
  (\E a \in allocationsByBlock :
     /\ a.pod = "p1" /\ ~a.released
     /\ podAPI["p1"] = PodNotFound /\ podLister["p1"] = PodNotFound)
    ~> (\/ \E a \in allocationsByBlock :
             a.pod = "p1" /\ a.released /\ AllocId(a) \notin IdsOf(confirmedLeaks)
        \/ /\ now = MaxTime
           /\ \E a \in allocationsByBlock :
                a.pod = "p1" /\ a.state = "Candidate" /\ now - a.since < LeakGracePeriod)

\* The allocation of pod p1 became a candidate while its node was clean of
\* other events, waited out the grace period, and a tick sync released it.
C39_Witness ==
  /\ last.op = "tick"
  /\ \E a \in allocationsByBlock :
       /\ a.pod = "p1" /\ a.released /\ AllocId(a) \in last.reclaimed
       /\ a.since >= 0 /\ now - a.since >= LeakGracePeriod
  /\ nodeLister["n1"] = "found"
  /\ confirmedLeaks = {}

\* C32: after a sync, a block whose ReleaseBlockAffinity call succeeded is in
\* none of emptyBlocks, blocksByNode, nodesByBlock, allBlocks, the release
\* tracker and the maps of the pool manager, and it was taken out before the next empty block was examined: no
\* node loses its last block in the pass. A block whose call failed is in all
\* of them as before the sync, and the failure alone neither makes the sync
\* fail nor schedules a retry.
C32_ReleaseOutcome ==
  [][last'.op # "none" =>
       /\ \A k \in last'.affCalls :
            IF k.ok
            THEN /\ k.block \notin DOMAIN emptyBlocks'
                 /\ k.block \notin blocksByNode'[k.node]
                 /\ k.block \notin DOMAIN nodesByBlock'
                 /\ k.block \notin DOMAIN allBlocks'
                 /\ k.block \notin DOMAIN blockReleaseTracker'
                 /\ k.block \notin DOMAIN poolManager'.poolsByBlock
                 /\ \A p \in DOMAIN poolManager'.blocksByPool :
                      k.block \notin poolManager'.blocksByPool[p]
            ELSE /\ k.block \in DOMAIN emptyBlocks' /\ emptyBlocks'[k.block] = k.node
                 /\ k.block \in blocksByNode'[k.node]
                 /\ k.block \in DOMAIN nodesByBlock' /\ nodesByBlock'[k.block] = k.node
                 /\ k.block \in DOMAIN allBlocks' /\ allBlocks'[k.block] = allBlocks[k.block]
                 /\ k.block \in DOMAIN blockReleaseTracker
                 /\ k.block \in DOMAIN blockReleaseTracker'
                 /\ blockReleaseTracker'[k.block] = blockReleaseTracker[k.block]
                 /\ (k.block \in DOMAIN poolManager'.poolsByBlock)
                      <=> (k.block \in DOMAIN poolManager.poolsByBlock)
                 /\ \A p \in DOMAIN poolManager.blocksByPool :
                      /\ p \in DOMAIN poolManager'.blocksByPool
                      /\ (k.block \in poolManager'.blocksByPool[p])
                           <=> (k.block \in poolManager.blocksByPool[p])
       /\ \A n \in CNodes : blocksByNode[n] # {} => blocksByNode'[n] # {}
       /\ (~last'.gcErr /\ last'.nodeErr = "nil") =>
            (~last'.err /\ last'.retry # "ScheduleRetry")]_vars

\* One pass in which the call for one empty block of n1 failed and the call for
\* the other succeeded; the sync, taken from the channel, reported success.
C32_Witness ==
  /\ last.op = "sync" /\ ~last.err /\ last.retry = "Success"
  /\ \E k1, k2 \in last.affCalls :
       /\ k1.ok /\ ~k2.ok /\ k1.node = "n1" /\ k2.node = "n1"
       /\ k1.block \notin DOMAIN allBlocks
       /\ k2.block \in DOMAIN emptyBlocks
       /\ blocksByNode["n1"] = {k2.block}

\* --- SpecPool: blocks and IP pools. The blocks b1 and b2 of node n1, empty or
\* holding one address, are received and deleted; the pools pool1 (which
\* contains both blocks) and pool2 (which contains b1) are received and
\* deleted; the clock advances and empty blocks have their affinity released
\* by the syncs that the kicks of the updates trigger; grace period Grace; the
\* calls of the IPAM client can fail.
NextPool ==
  \/ \E b \in Blocks :
       \E v \in {w \in AffBlockValues(b) : w.affinity = HostAffinity("n1")} :
         BlockUpdate(b, v)
  \/ \E b \in Blocks : BlockDelete(b)
  \/ \E pool \in {"pool1", "pool2"}, deleted \in BOOLEAN : PoolUpdate(pool, deleted)
  \/ ClockTick
  \/ TriggeredSync

SpecPool == InitAff /\ [][NextPool]_vars

\* C40: whenever updateMetrics can run - a sync taken from the channel has
\* returned, the datastore is ready and in sync - every block that the pool
\* manager lists under a pool is a key of allBlocks.
C40_MetricsBlocksKnown ==
  (last.op = "sync" /\ running /\ datastoreReady /\ syncStatus = "InSync") =>
    \A p \in DOMAIN poolManager.blocksByPool :
      poolManager.blocksByPool[p] \subseteq DOMAIN allBlocks

\* After a triggered sync that released the affinity of a block, with both
\* pools known: the pool manager lists the block that is left and no other.
C40_Witness ==
  /\ last.op = "sync" /\ datastoreReady /\ syncStatus = "InSync"
  /\ \E k \in last.affCalls : k.ok /\ k.block \notin DOMAIN allBlocks
  /\ poolManager.allPools = {"pool1", "pool2"}
  /\ \E p \in DOMAIN poolManager.blocksByPool : poolManager.blocksByPool[p] # {}

====
